---- MODULE Spec2Model ----
(***************************************************************************)
(* Evidence fusion, confidence calibration and answer validation of the    *)
(* FAIR-Agent repository (src/src/agents/finance_agent.py,                 *)
(* src/src/agents/medical_agent.py, src/src/validation/answer_validator.py *)
(* and src/src/data_sources/internet_rag.py).                              *)
(*                                                                         *)
(* Numbers.  The Python code computes with floats.  Every score, boost and *)
(* confidence is kept here as an exact integer number of thousandths       *)
(* (0.35 is 350).  The final confidence divides by 0.15 and multiplies by  *)
(* tenths, so it is kept in the finer unit 1/(1000 * Unit), Unit = 1500;   *)
(* a value v in thousandths is v * Unit in that unit.  Float rounding is   *)
(* modelled where it decides a comparison (the validator's quality bonus).  *)
(***************************************************************************)
EXTENDS Integers, Sequences, FiniteSets, TLC

VARIABLES
    pc,                 \* position of the request being processed
    agent,              \* "finance" (FinanceAgent) or "medical" (MedicalAgent)
    \* ---- inputs of _parse_finance_response / _parse_medical_response
    text_len,           \* len(text) of the answer handed to the parser
    factor_counts,      \* <<confidence_count, uncertainty_count>> (medical)
    return_confidence,  \* the finance parser's return_confidence argument
    validation_adj,     \* validation_result.confidence_adjustment
    \* ---- the FinanceResponse / MedicalResponse that was returned
    response,
    \* ---- one call of _enhance_with_systems(query, base_response)
    query,              \* the question
    base_response,      \* the backend's answer, NoneText when there is none
    concepts,           \* enhance_*_response: the concepts still to be fetched
    sources,            \* enhance_*_response: the live sources fetched so far
    live_call,          \* how the live call ended: "pending", "returned", "raised", "skipped"
    enhanced,           \* what _enhance_with_systems returned, with its locals
    \* ---- one call of validate_response and the calls of apply_corrections
    answer,             \* the answer text
    question,           \* the question
    domain,             \* "medical", "finance" or "general"
    evidence_sources,   \* the evidence list handed to the validator
    validation,         \* the ValidationResult, with the four scores
    corrected,          \* the results of the successive apply_corrections calls
    \* ---- one call of _add_structured_format(response, evidence_sources)
    formatted,          \* what it returned, in parts
    \* ---- one call of FinanceAgent.query / MedicalAgent.query
    steps,              \* the pipeline steps the call has made so far, in order
    \* ---- one InternetRAGSystem and its calls of _search_web
    now,                \* time.time(), in quarters of a second
    last_request_time,  \* self.last_request_time
    use_real_search,    \* self.use_real_search
    request_times,      \* when each request to the search API was issued
    last_call,          \* how the latest call of _search_web went
    threads             \* the request threads inside _search_web: position and locals

calib_vars == <<pc, agent, text_len, factor_counts, return_confidence,
                validation_adj, response>>

\* calib_vars without pc
calib_vars_but_pc == <<agent, text_len, factor_counts, return_confidence,
                       validation_adj, response>>

agg_vars == <<query, base_response, concepts, sources, live_call, enhanced>>

val_vars == <<answer, question, domain, evidence_sources, validation, corrected>>

fmt_vars == <<formatted>>

query_vars == <<steps>>

search_vars == <<now, last_request_time, use_real_search, request_times, last_call, threads>>

\* The variables of the steps that follow validation, of the whole query and
\* of the live search.
ext_vars == <<fmt_vars, query_vars, search_vars>>

vars == <<calib_vars, agg_vars, val_vars, ext_vars>>

Min(a, b) == IF a <= b THEN a ELSE b
Max(a, b) == IF a >= b THEN a ELSE b

(***************************************************************************)
(* Confidence calibration: the tail of _parse_finance_response and of      *)
(* _parse_medical_response (the two are the same computation).             *)
(***************************************************************************)

\* overall_safety_improvement, hard-wired by both parsers
SafetyImprovement == 400
\* +5% per internet source ...
PerSourceBoost == 50
\* ... max 15%
InternetCap == 150
\* cap of the combined evidence boost
EvidenceCap == 350
\* the reference the evidence boost is divided by
QualityRef == 150
\* cap of the final confidence
Ceiling == 850

\* One thousandth in the unit of the final confidence.
Unit == 10 * QualityRef

\* internet_boost = min(internet_source_count * 0.05, 0.15)
InternetBoost(internet_source_count) ==
    Min(internet_source_count * PerSourceBoost, InternetCap)

\* Mutant of EvidenceBoost: the 35% cap is forgotten.
EvidenceBoostUncapped(local_evidence_boost, internet_boost) ==
    local_evidence_boost + internet_boost

\* evidence_boost = min(local_evidence_boost + internet_boost, 0.35)
EvidenceBoost(local_evidence_boost, internet_boost) ==
    Min(local_evidence_boost + internet_boost, EvidenceCap)

\* evidence_quality_factor = min(evidence_boost / 0.15, 1.0) if evidence_boost > 0 else 0.5
\* as a numerator over QualityRef: the factor is QualityFactor(e) / QualityRef.
QualityFactor(evidence_boost) ==
    IF evidence_boost > 0 THEN Min(evidence_boost, QualityRef)
    ELSE QualityRef \div 2

\* scaled_safety_boost = safety_boost * (0.3 + 0.7 * evidence_quality_factor), times Unit
ScaledSafetyBoost(safety_boost, evidence_boost) ==
    safety_boost * (3 * QualityRef + 7 * QualityFactor(evidence_boost))

\* scaled_reasoning_boost = reasoning_boost * (0.4 + 0.6 * evidence_quality_factor), times Unit
ScaledReasoningBoost(reasoning_boost, evidence_boost) ==
    reasoning_boost * (4 * QualityRef + 6 * QualityFactor(evidence_boost))

\* Mutant of EnhancedConfidence: the 85% ceiling is forgotten.
EnhancedConfidenceNoCeiling(base_confidence, safety_boost, evidence_boost, reasoning_boost) ==
    base_confidence * Unit
      + ScaledSafetyBoost(safety_boost, evidence_boost)
      + evidence_boost * Unit
      + ScaledReasoningBoost(reasoning_boost, evidence_boost)

\* enhanced_confidence = min(base + scaled_safety + evidence + scaled_reasoning, 0.85), times Unit
EnhancedConfidence(base_confidence, safety_boost, evidence_boost, reasoning_boost) ==
    Min(base_confidence * Unit
          + ScaledSafetyBoost(safety_boost, evidence_boost)
          + evidence_boost * Unit
          + ScaledReasoningBoost(reasoning_boost, evidence_boost),
        Ceiling * Unit)


\* enhanced_confidence of the two parsers from their inputs.
ParseConfidence(base_confidence, local_evidence_boost, internet_source_count, reasoning_boost) ==
    EnhancedConfidence(base_confidence, SafetyImprovement,
                       EvidenceBoost(local_evidence_boost, InternetBoost(internet_source_count)),
                       reasoning_boost)

(***************************************************************************)
(* Base confidence, before the boosts.                                     *)
(***************************************************************************)

\* FinanceAgent._parse_finance_response: base_quality_score, clamped to 20-50%,
\* or 0.0 when return_confidence is false.
FinanceBaseConfidence(len, adj, with_confidence) ==
    IF with_confidence
    THEN LET base_quality_score ==
                 300 + (IF len > 500 THEN 100 ELSE 0)
                     + (IF len > 1000 THEN 50 ELSE 0)
                     - (IF len < 200 THEN 100 ELSE 0)
                     + adj
         IN  Max(200, Min(500, base_quality_score))
    ELSE 0

\* MedicalAgent._compute_medical_confidence
ComputeMedicalConfidence(len, counts) ==
    LET confidence_adjustment ==
            (counts[1] - counts[2]) * 50
              + (IF len > 500 THEN 50 ELSE 0)
              - (IF len < 200 THEN 50 ELSE 0)
    IN  Max(200, Min(500, 300 + confidence_adjustment))

\* MedicalAgent._parse_medical_response: the validation adjustment, kept in [0.1, 1.0]
MedicalBaseConfidence(len, counts, adj) ==
    Max(100, Min(ComputeMedicalConfidence(len, counts) + adj, 1000))

(***************************************************************************)
(* The confidence adjustments AnswerValidator.validate_response hands to   *)
(* the parsers.                                                            *)
(***************************************************************************)

\* confidence_adjustment -= 0.10 (poor citations)
CitationPenalty == 100
\* confidence_adjustment -= 0.15 (numerical errors)
NumericalPenalty == 150
\* confidence_adjustment -= 0.20 (safety issues)
SafetyPenalty == 200
\* confidence_adjustment -= 0.08 (incomplete)
CompletenessPenalty == 80
\* confidence_adjustment += 0.05 (high quality)
QualityBonus == 50

\* Every sum of penalties, with or without the bonus.
AdjustmentValues ==
    { - (c + n + s + k) + b :
        c \in {0, CitationPenalty}, n \in {0, NumericalPenalty},
        s \in {0, SafetyPenalty}, k \in {0, CompletenessPenalty},
        b \in {0, QualityBonus} }

(***************************************************************************)
(* Requests to the parsers.                                                *)
(***************************************************************************)

Agents == {"finance", "medical"}

\* len(text): below 200, between 200 and 500, above 500, above 1000
TextLens == {120, 350, 700, 1200}

\* <<confidence_count, uncertainty_count>>: how many of the 7 confidence factors
\* and of the 7 uncertainty factors occur in the text
FactorCounts == {<<0, 0>>, <<2, 1>>, <<5, 0>>, <<7, 0>>, <<0, 3>>, <<0, 7>>}

\* faithfulness_improvement as RAGSystem.enhance_agent_response reports it, in [0, 1]
LocalBoostValues == {0, 50, 100, 150, 200, 350, 500}
\* interpretability_improvement as the reasoning integrator reports it, in [0, 1]
ReasoningBoostValues == {0, 100, 300}

\* _extract_financial_concepts / _extract_medical_concepts: concepts[:3]
MaxConcepts == 3
\* _fetch_*_concept_info: at most 2 sources per concept
PerConceptSources == 2
\* internet_source_count = len(sources) of enhance_*_response
InternetSourceCounts == 0 .. (MaxConcepts * PerConceptSources)

NoResponse == [kind |-> "none"]

\* What an enhancer call leaves in its improvements dictionary: the boost it
\* reports, or 0.0 when the call raised and the except branch filled it in.
ImprovementOf(outcome) == IF outcome.raised THEN 0 ELSE outcome.value

\* The outcomes of an enhancer call whose reported boost lies in `values`.
EnhancerOutcomes(values) ==
    {[raised |-> TRUE, value |-> 0]} \cup {[raised |-> FALSE, value |-> v] : v \in values}

\* The response both parsers build (lines 981-1059 finance, 748-823 medical).
BuildResponse(base_confidence, local_outcome, internet_source_count, reasoning_outcome) ==
    LET safety_boost         == SafetyImprovement
        local_evidence_boost == ImprovementOf(local_outcome)
        reasoning_boost      == ImprovementOf(reasoning_outcome)
        internet_boost       == InternetBoost(internet_source_count)
        evidence_boost       == EvidenceBoost(local_evidence_boost, internet_boost)
    IN  [kind |-> "response",
         base_confidence        |-> base_confidence,
         local_evidence_boost   |-> local_evidence_boost,
         internet_source_count  |-> internet_source_count,
         scaled_safety_boost    |-> ScaledSafetyBoost(safety_boost, evidence_boost),
         scaled_reasoning_boost |-> ScaledReasoningBoost(reasoning_boost, evidence_boost),
         confidence_score |-> ParseConfidence(base_confidence, local_evidence_boost,
                                              internet_source_count, reasoning_boost),
         safety_boost     |-> safety_boost,
         evidence_boost   |-> evidence_boost,
         reasoning_boost  |-> reasoning_boost,
         internet_boost   |-> internet_boost]

\* The aggregation state of a specification that runs no aggregation.
AggIdle ==
    /\ query = ""
    /\ base_response = <<>>
    /\ concepts = <<>>
    /\ sources = <<>>
    /\ live_call = "skipped"
    /\ enhanced = [kind |-> "none"]

NoValidation == [kind |-> "none"]

\* The validation state of a specification that runs no validation.
ValIdle ==
    /\ answer = <<>>
    /\ question = ""
    /\ domain = "general"
    /\ evidence_sources = <<>>
    /\ validation = NoValidation
    /\ corrected = <<>>

NoFormat == [kind |-> "none"]

\* The formatting state of a specification that formats nothing.
FmtIdle == formatted = NoFormat

NoCall == [kind |-> "none"]
\* No thread is inside _search_web.
NoThreads == <<>>

\* The state of a specification that runs no whole query ...
QueryIdle == steps = <<>>

\* ... and of one that makes no live search.
SearchIdle ==
    /\ now = 0
    /\ last_request_time = 0
    /\ use_real_search = FALSE
    /\ request_times = <<>>
    /\ last_call = NoCall
    /\ threads = NoThreads

ExtIdle == FmtIdle /\ QueryIdle /\ SearchIdle

CalibInit ==
    /\ AggIdle
    /\ ValIdle
    /\ ExtIdle
    /\ pc = "parse"
    /\ agent \in Agents
    /\ text_len \in TextLens
    /\ validation_adj \in AdjustmentValues
    /\ IF agent = "finance"
       THEN factor_counts = <<0, 0>> /\ return_confidence \in BOOLEAN
       ELSE factor_counts \in FactorCounts /\ return_confidence = TRUE
    /\ response = NoResponse

\* FinanceAgent._parse_finance_response
ParseFinanceResponse ==
    /\ pc = "parse"
    /\ agent = "finance"
    /\ \E local \in EnhancerOutcomes(LocalBoostValues),
          reasoning \in EnhancerOutcomes(ReasoningBoostValues),
          internet_source_count \in InternetSourceCounts :
          response' = BuildResponse(
                          FinanceBaseConfidence(text_len, validation_adj, return_confidence),
                          local, internet_source_count, reasoning)
    /\ pc' = "done"
    /\ UNCHANGED <<agent, text_len, factor_counts, return_confidence, validation_adj>>
    /\ UNCHANGED <<agg_vars, val_vars, ext_vars>>

\* MedicalAgent._parse_medical_response
ParseMedicalResponse ==
    /\ pc = "parse"
    /\ agent = "medical"
    /\ \E local \in EnhancerOutcomes(LocalBoostValues),
          reasoning \in EnhancerOutcomes(ReasoningBoostValues),
          internet_source_count \in InternetSourceCounts :
          response' = BuildResponse(
                          MedicalBaseConfidence(text_len, factor_counts, validation_adj),
                          local, internet_source_count, reasoning)
    /\ pc' = "done"
    /\ UNCHANGED <<agent, text_len, factor_counts, return_confidence, validation_adj>>
    /\ UNCHANGED <<agg_vars, val_vars, ext_vars>>

CalibNext == ParseFinanceResponse \/ ParseMedicalResponse

CalibSpec == CalibInit /\ [][CalibNext]_vars

(***************************************************************************)
(* Claims about the calibration, checked under CalibSpec.                  *)
(***************************************************************************)

SafetyBoostValues == {0, 200, SafetyImprovement}

\* C2: the final confidence is monotonically non-decreasing in each boost:
\* with the base and the other boosts of the response held fixed, no smaller
\* local evidence boost, no smaller number of live sources, no smaller
\* reasoning boost and no smaller safety boost yields a larger final
\* confidence than the one returned.
C2_MonotoneInEachBoost ==
    pc = "done" =>
        LET base  == response.base_confidence
            local == response.local_evidence_boost
            count == response.internet_source_count
            reas  == response.reasoning_boost
            final == response.confidence_score
        IN  /\ \A l \in LocalBoostValues :
                 l <= local => ParseConfidence(base, l, count, reas) <= final
            /\ \A c \in InternetSourceCounts :
                 c <= count => ParseConfidence(base, local, c, reas) <= final
            /\ \A r \in ReasoningBoostValues :
                 r <= reas => ParseConfidence(base, local, count, r) <= final
            /\ \A s \in SafetyBoostValues :
                 s <= response.safety_boost =>
                     EnhancedConfidence(base, s, response.evidence_boost, reas) <= final

\* C3: the combined evidence boost never exceeds 0.35, and the live boost
\* reaches the final confidence through that bucket alone: the final
\* confidence is never more than base + scaled safety + scaled reasoning +
\* the capped evidence boost.
C3_EvidenceBoostCapped ==
    pc = "done" =>
        /\ response.evidence_boost <= EvidenceCap
        /\ response.internet_boost <= InternetCap
        /\ response.confidence_score
             <= response.base_confidence * Unit + response.scaled_safety_boost
                  + response.scaled_reasoning_boost + response.evidence_boost * Unit
        /\ response.confidence_score
             <= response.base_confidence * Unit + response.scaled_safety_boost
                  + response.scaled_reasoning_boost + EvidenceCap * Unit

\* C3 witness: local and live evidence together exceed the cap (local 0.5 and
\* three or more live sources) and the response reports exactly the cap.
C3_Witness ==
    /\ pc = "done"
    /\ response.local_evidence_boost + response.internet_boost > EvidenceCap
    /\ response.internet_source_count >= 3
    /\ response.evidence_boost = EvidenceCap

(***************************************************************************)
(* Texts.  A text is a sequence of fragments (strings) that Python would   *)
(* hold concatenated; len(text) is the sum of the fragments' lengths.      *)
(* NoneText stands for Python's None where a str is expected.  The emoji   *)
(* of the source's literals are written as ASCII stand-ins of the same     *)
(* length, and the long templates by their opening sentence.               *)
(***************************************************************************)

NoneText == <<"<None>">>

RECURSIVE TextLen(_)
TextLen(t) == IF t = <<>> THEN 0 ELSE Len(Head(t)) + TextLen(Tail(t))

\* The note _enhance_with_systems appends when neither source found anything.
FinanceNotice ==
    "\n\n!! **Note**: Could not find specific evidence from established financial databases or current internet sources. Response based on general financial knowledge."
MedicalNotice ==
    "\n\n!! **Note**: Could not find specific evidence from established medical databases or current internet sources. Response based on general medical knowledge."

Notice(a) == IF a = "finance" THEN FinanceNotice ELSE MedicalNotice

\* _integrate_sources_into_response: header, one entry per source, trailer
LiveHeader  == "\n\n**Live Internet Sources (Current Information):**\n"
LiveEntry   == "\n**Internet Source i** (Reliability: 92%):\n(content preview)\n*Live Source: [url](url)*\n"
LiveTrailer == "\n**Information Quality:** Enhanced with n internet sources (Average reliability: 92%). Retrieved: 2025-01-01 12:00"

\* What the enhancers outside this part of the repository add to a text.
EvidenceContext == "\n\n**Evidence-Based Context:** (curated evidence excerpt)"
SafetyText      == "\n\n**Important:** (safety and disclaimer text)"

\* FinanceAgent._get_quality_template, MedicalAgent._get_quality_template
RoiTemplate        == "\n            Return on Investment (ROI) measures the efficiency of an investment by comparing the gain or loss relative to the cost of the investment.\n            "
InvestmentTemplate == "\n            Investment fundamentals focus on long-term wealth building through diversified portfolios.\n            "
BudgetTemplate     == "\n            Effective budgeting starts with tracking income and expenses to understand spending patterns.\n            "
DebtTemplate       == "\n            Debt management requires strategic approach to minimize interest costs and improve credit health.\n            "
MedicalTemplate    == "\n        Medical information requires careful evaluation by qualified healthcare professionals.\n        "

\* Leading and trailing whitespace of a fragment, for str.strip().
LeadingSpace(f) ==
    CASE f \in {FinanceNotice, MedicalNotice, LiveHeader, EvidenceContext, SafetyText} -> 2
      [] f \in {RoiTemplate, InvestmentTemplate, BudgetTemplate, DebtTemplate} -> 13
      [] f = MedicalTemplate -> 9
      [] f \in {LiveEntry, LiveTrailer} -> 1
      [] OTHER -> 0
TrailingSpace(f) ==
    CASE f \in {RoiTemplate, InvestmentTemplate, BudgetTemplate, DebtTemplate} -> 13
      [] f = MedicalTemplate -> 9
      [] f \in {LiveHeader, LiveEntry} -> 1
      [] OTHER -> 0

\* len(text.strip())
StripLen(t) ==
    IF t = <<>> THEN 0
    ELSE TextLen(t) - LeadingSpace(t[1]) - TrailingSpace(t[Len(t)])

\* `not text`: the empty string (None is falsy too)
IsFalsy(t) == t = NoneText \/ TextLen(t) = 0

Contains(t, f) == \E i \in 1 .. Len(t) : t[i] = f

(***************************************************************************)
(* Questions.  QueryKeywords(q) is the set of keywords of the concept      *)
(* patterns and of the template triggers that occur in q.lower().          *)
(***************************************************************************)

FinanceQueries ==
    {"Should I invest in index funds?",
     "How risky are stocks and bonds for retirement?",
     "How do I budget my expenses?",
     "What is a mortgage?"}
MedicalQueries ==
    {"What treatment helps chronic pain?", "What is a migraine?"}

QueriesOf(a) == IF a = "finance" THEN FinanceQueries ELSE MedicalQueries

QueryKeywords(q) ==
    CASE q = "Should I invest in index funds?" -> {"invest"}
      [] q = "How risky are stocks and bonds for retirement?" ->
             {"bond", "bonds", "retirement", "risk", "stock", "stocks"}
      [] q = "How do I budget my expenses?" -> {"budget", "expenses", "expense"}
      [] q = "What treatment helps chronic pain?" -> {"pain", "treatment"}
      [] OTHER -> {}

\* InternetRAGSystem._extract_financial_concepts: financial_patterns, in dict order
FinancialPatterns ==
    << [concept |-> "investment",
        keywords |-> {"investment", "invest", "portfolio", "stocks", "bonds", "equity"}],
       [concept |-> "retirement",
        keywords |-> {"retirement", "401k", "pension", "ira", "roth"}],
       [concept |-> "budgeting",
        keywords |-> {"budget", "budgeting", "expenses", "savings", "spending"}],
       [concept |-> "risk",
        keywords |-> {"risk", "volatility", "diversification", "hedge"}],
       [concept |-> "finance_basics",
        keywords |-> {"finance", "financial", "money", "wealth", "profit", "loss",
                      "revenue", "income", "earnings", "capital"}],
       [concept |-> "stocks",
        keywords |-> {"stock", "stocks", "equity", "shares", "trading"}],
       [concept |-> "bonds",
        keywords |-> {"bond", "bonds", "treasury", "fixed income"}],
       [concept |-> "tax",
        keywords |-> {"tax", "taxes", "taxation", "deduction", "credit"}] >>

\* InternetRAGSystem._extract_medical_concepts: medical_patterns, in dict order
MedicalPatterns ==
    << [concept |-> "symptoms",
        keywords |-> {"symptom", "pain", "ache", "feeling", "hurt"}],
       [concept |-> "medications",
        keywords |-> {"medication", "drug", "medicine", "treatment"}],
       [concept |-> "conditions",
        keywords |-> {"disease", "condition", "syndrome", "disorder"}],
       [concept |-> "prevention",
        keywords |-> {"prevent", "prevention", "health", "wellness"}] >>

Patterns(dom) == IF dom = "finance" THEN FinancialPatterns ELSE MedicalPatterns

\* s[:n]
Take(s, n) == SubSeq(s, 1, Min(n, Len(s)))

\* _extract_financial_concepts / _extract_medical_concepts
ExtractConcepts(dom, q) ==
    LET matched == SelectSeq(Patterns(dom),
                             LAMBDA p : p.keywords \cap QueryKeywords(q) # {})
    IN  Take([i \in 1 .. Len(matched) |-> matched[i].concept], MaxConcepts)

(***************************************************************************)
(* Evidence sources.  An item is its locator and the class it was built    *)
(* from: "curated" for the EvidenceSource objects of the YAML store,       *)
(* "live" for the InternetSource objects of InternetRAGSystem.             *)
(***************************************************************************)

\* The locators the store and the web search may return.
Urls == {"https://www.investor.gov/a", "https://www.sec.gov/b"}

Source(u, o) == [url |-> u, origin |-> o]

\* A raw item of _search_web: its link and whether it carries a snippet.
SearchItems == [url : Urls \cup {""}, snippet : BOOLEAN]

\* num_results=3 asked of _search_web by _fetch_*_concept_info
NumResults == 3

\* Longest list the curated store is made to return here (its top_k is 8).
MaxCurated == 2

SeqsUpTo(S, n) == UNION {[1 .. k -> S] : k \in 0 .. n}

\* financial_info_db / medical_info_db: the keys with their locators, in dict order
FinancialInfoDb ==
    << [key |-> "investment",     url |-> "https://www.investor.gov/introduction-investing"],
       [key |-> "retirement",     url |-> "https://www.dol.gov/general/topic/retirement"],
       [key |-> "diversification", url |-> "https://www.investopedia.com/terms/d/diversification.asp"],
       [key |-> "budgeting",      url |-> "https://www.consumerfinance.gov/consumer-tools/budgeting/"],
       [key |-> "finance_basics", url |-> "https://www.federalreserveeducation.org/"],
       [key |-> "profit",         url |-> "https://www.investopedia.com/terms/p/profit.asp"],
       [key |-> "loss",           url |-> "https://www.investopedia.com/terms/l/loss.asp"],
       [key |-> "stocks",         url |-> "https://www.sec.gov/investor/pubs/assetallocation.htm"],
       [key |-> "bonds",          url |-> "https://www.treasurydirect.gov/indiv/research/indepth/ebonds/res_e_bonds.htm"] >>
MedicalInfoDb ==
    << [key |-> "symptoms",       url |-> "https://www.mayoclinic.org/symptoms"],
       [key |-> "medications",    url |-> "https://medlineplus.gov/druginformation.html"],
       [key |-> "prevention",     url |-> "https://www.cdc.gov/chronicdisease/programs-impact/pop/index.htm"],
       [key |-> "blood pressure", url |-> "https://www.heart.org/en/health-topics/high-blood-pressure"],
       [key |-> "diabetes",       url |-> "https://diabetes.org/diabetes"],
       [key |-> "heart",          url |-> "https://www.nhlbi.nih.gov/health/heart"] >>

InfoDb(dom) == IF dom = "finance" THEN FinancialInfoDb ELSE MedicalInfoDb

\* `key in concept_lower or concept_lower in key`: the concepts are the pattern
\* names, and no database key is a proper part of one of them or has one of
\* them as a proper part, so the test is equality.
KeyMatches(key, concept) == key = concept

\* The curated fallback of _fetch_*_concept_info: the matching entries, at most 2.
FallbackSources(dom, concept) ==
    LET hits == SelectSeq(InfoDb(dom), LAMBDA e : KeyMatches(e.key, concept))
    IN  Take([i \in 1 .. Len(hits) |-> Source(hits[i].url, "live")], PerConceptSources)

\* Mutant of FetchConceptInfo: every usable search result is returned, not the top 2.
FetchConceptInfoAll(dom, concept, google_results) ==
    LET usable == SelectSeq(google_results, LAMBDA r : r.url # "" /\ r.snippet)
        found  == [i \in 1 .. Len(usable) |-> Source(usable[i].url, "live")]
    IN  IF found # <<>> THEN found ELSE FallbackSources(dom, concept)

\* InternetRAGSystem._fetch_financial_concept_info / _fetch_medical_concept_info,
\* given what _search_web returned (the empty list when the search failed).
FetchConceptInfo(dom, concept, google_results) ==
    LET usable == SelectSeq(google_results, LAMBDA r : r.url # "" /\ r.snippet)
        found  == [i \in 1 .. Len(usable) |-> Source(usable[i].url, "live")]
    IN  IF found # <<>> THEN Take(found, PerConceptSources)
        ELSE FallbackSources(dom, concept)

\* InternetRAGSystem._integrate_sources_into_response
IntegrateSourcesIntoResponse(text, srcs) ==
    IF srcs = <<>> THEN text
    ELSE text \o <<LiveHeader>> \o [i \in 1 .. Min(3, Len(srcs)) |-> LiveEntry]
              \o <<LiveTrailer>>

(***************************************************************************)
(* FinanceAgent._enhance_with_systems and MedicalAgent._enhance_with_systems*)
(***************************************************************************)

\* hasattr(self, name): what the two __init__ set.  FinanceAgent sets
\* response_enhancer, rag_system, cot_integrator and internet_rag; MedicalAgent
\* sets none of them.
HasAttr(a, name) ==
    /\ a = "finance"
    /\ name \in {"response_enhancer", "rag_system", "cot_integrator", "internet_rag"}

\* `base_response or ""`
OrEmpty(t) == IF IsFalsy(t) THEN <<>> ELSE t

\* FinanceAgent._get_quality_template: the first matching template, else None
FinanceQualityTemplate(q) ==
    LET kw == QueryKeywords(q)
    IN  IF kw \cap {"roi", "return on investment", "rate of return"} # {} THEN <<RoiTemplate>>
        ELSE IF kw \cap {"investment", "invest", "money", "finance"} # {} THEN <<InvestmentTemplate>>
        ELSE IF kw \cap {"budget", "budgeting", "expense"} # {} THEN <<BudgetTemplate>>
        ELSE IF kw \cap {"debt", "loan", "credit"} # {} THEN <<DebtTemplate>>
        ELSE NoneText

\* MedicalAgent._get_quality_template: _get_template_response(query) or the default
\* text; no query here names medicine, health or diabetes, so it is the default
MedicalQualityTemplate(q) == <<MedicalTemplate>>

QualityTemplate(a, q) ==
    IF a = "finance" THEN FinanceQualityTemplate(q) ELSE MedicalQualityTemplate(q)

\* Outcomes of the calls into the curated store and the two text enhancers.
\* rag_system.retrieve_evidence(query, domain, top_k=8): a list, or an exception
RetrievalOutcomes ==
    {[raised |-> TRUE, items |-> <<>>]}
      \cup {[raised |-> FALSE, items |-> [i \in 1 .. Len(us) |-> Source(us[i], "curated")]] :
              us \in SeqsUpTo(Urls, MaxCurated)}

\* rag_system.enhance_agent_response / response_enhancer.enhance_response:
\* an exception, a falsy text, or the text with the enhancer's addition
TextOutcomes == {"raised", "empty", "enhanced"}

\* `if enhanced: enhanced_response = enhanced`, inside try/except
AfterEnhancer(text, outcome, addition) ==
    IF outcome = "enhanced" THEN text \o <<addition>> ELSE text

\* Mutant of MergeSources: live results are put before the curated ones.
MergeSourcesLiveFirst(yaml_sources, yaml_success, internet_sources, internet_success) ==
    IF yaml_success /\ internet_success THEN internet_sources \o yaml_sources
    ELSE IF yaml_success THEN yaml_sources
    ELSE IF internet_success THEN internet_sources
    ELSE <<>>

\* Mutant of MergeSources: the curated list is used only when the live search
\* succeeded too.
MergeSourcesNeedsLive(yaml_sources, yaml_success, internet_sources, internet_success) ==
    IF yaml_success /\ internet_success THEN yaml_sources \o internet_sources
    ELSE IF internet_success THEN internet_sources
    ELSE <<>>

\* Step 3, the sources: YAML first, then Internet
MergeSources(yaml_sources, yaml_success, internet_sources, internet_success) ==
    IF yaml_success /\ internet_success THEN yaml_sources \o internet_sources
    ELSE IF yaml_success THEN yaml_sources
    ELSE IF internet_success THEN internet_sources
    ELSE <<>>

\* Mutant of MergeResponse: the note is appended whenever the curated store
\* found nothing.
MergeResponseNoteWithoutCurated(a, text, yaml_success, internet_success, internet_enhancement) ==
    IF yaml_success THEN text
    ELSE IF internet_success
    THEN (IF a = "finance"
          THEN (IF ~IsFalsy(internet_enhancement) THEN internet_enhancement ELSE text)
          ELSE (IF ~IsFalsy(internet_enhancement) /\ StripLen(internet_enhancement) > StripLen(text)
                THEN internet_enhancement ELSE text)) \o <<Notice(a)>>
    ELSE text \o <<Notice(a)>>

\* Step 3, the text: unchanged when the curated store found something, the
\* live enhancement when only the live search did, the note when neither did.
MergeResponse(a, text, yaml_success, internet_success, internet_enhancement) ==
    IF yaml_success THEN text
    ELSE IF internet_success
    THEN IF a = "finance"
         THEN (IF ~IsFalsy(internet_enhancement) THEN internet_enhancement ELSE text)
         ELSE (IF ~IsFalsy(internet_enhancement) /\ StripLen(internet_enhancement) > StripLen(text)
               THEN internet_enhancement ELSE text)
    ELSE text \o <<Notice(a)>>

NoResult == [kind |-> "none"]

\* _enhance_with_systems from the point where the live call has ended:
\* `live` is what enhance_*_response returned ([text, sources]) or NoResult
\* when the call raised or was skipped.
EnhanceResult(a, q, base, live, retrieval, evidence_outcome, fair_outcome) ==
    LET start == OrEmpty(base)
        internet_sources == IF live.kind = "none" THEN <<>> ELSE live.sources
        internet_success == internet_sources # <<>>
        internet_source_count == Len(internet_sources)
        internet_enhancement == IF live.kind = "none" THEN NoneText ELSE live.text
        has_rag == HasAttr(a, "rag_system")
        yaml_sources == IF has_rag /\ ~retrieval.raised THEN retrieval.items ELSE <<>>
        yaml_success == yaml_sources # <<>>
        after_evidence ==
            IF has_rag /\ ~retrieval.raised
            THEN AfterEnhancer(start, evidence_outcome, EvidenceContext)
            ELSE start
        all_sources == MergeSources(yaml_sources, yaml_success,
                                    internet_sources, internet_success)
        merged == MergeResponse(a, after_evidence, yaml_success, internet_success,
                                internet_enhancement)
        after_fair ==
            IF HasAttr(a, "response_enhancer")
            THEN AfterEnhancer(merged, fair_outcome, SafetyText)
            ELSE merged
        final == IF IsFalsy(after_fair) \/ StripLen(after_fair) < 50
                 THEN QualityTemplate(a, q) ELSE after_fair
    IN  [kind |-> "result",
         enhanced_response     |-> final,
         merged_response       |-> merged,
         internet_source_count |-> internet_source_count,
         all_sources           |-> all_sources,
         yaml_sources          |-> yaml_sources,
         internet_sources      |-> internet_sources,
         retrieved             |-> IF has_rag THEN retrieval
                                   ELSE [raised |-> FALSE, items |-> <<>>],
         curated_requested     |-> has_rag]

\* The backend's answer handed to _enhance_with_systems: None when the
\* generation produced nothing usable, else a text of more than 20 characters.
LlmAnswer == "Index funds track a market index and offer broad diversification at low cost."
BaseResponses == {NoneText, <<LlmAnswer>>}

\* The parser state of a specification that runs no parser.
CalibIdle ==
    /\ text_len = 0
    /\ factor_counts = <<0, 0>>
    /\ return_confidence = TRUE
    /\ validation_adj = 0
    /\ response = NoResponse

AggInit ==
    /\ CalibIdle
    /\ ValIdle
    /\ ExtIdle
    /\ pc = "enhance"
    /\ agent \in Agents
    /\ query \in QueriesOf(agent)
    /\ base_response \in BaseResponses
    /\ concepts = <<>>
    /\ sources = <<>>
    /\ live_call = "pending"
    /\ enhanced = NoResult

\* enhance_finance_response / enhance_medical_response, entered from step 1 of
\* _enhance_with_systems: the concepts of the query are extracted.
EnhanceResponseBegin ==
    /\ pc = "enhance"
    /\ HasAttr(agent, "internet_rag")
    /\ concepts' = ExtractConcepts(agent, query)
    /\ sources' = <<>>
    /\ pc' = "fetch"
    /\ UNCHANGED <<agent, query, base_response, live_call, enhanced>>
    /\ UNCHANGED <<text_len, factor_counts, return_confidence, validation_adj, response>>
    /\ UNCHANGED <<val_vars, ext_vars>>

\* One turn of `for concept in concepts`: _fetch_*_concept_info(concept), with
\* whatever _search_web returns for it.
FetchConcept ==
    /\ pc = "fetch"
    /\ concepts # <<>>
    /\ \E google_results \in SeqsUpTo(SearchItems, NumResults) :
           sources' = sources \o FetchConceptInfo(agent, Head(concepts), google_results)
    /\ concepts' = Tail(concepts)
    /\ UNCHANGED <<pc, agent, query, base_response, live_call, enhanced>>
    /\ UNCHANGED <<text_len, factor_counts, return_confidence, validation_adj, response>>
    /\ UNCHANGED <<val_vars, ext_vars>>

\* enhance_*_response returns (enhanced_response, sources).
EnhanceResponseReturn ==
    /\ pc = "fetch"
    /\ concepts = <<>>
    /\ live_call' = "returned"
    /\ pc' = "merge"
    /\ UNCHANGED <<agent, query, base_response, concepts, sources, enhanced>>
    /\ UNCHANGED <<text_len, factor_counts, return_confidence, validation_adj, response>>
    /\ UNCHANGED <<val_vars, ext_vars>>

\* An exception inside enhance_*_response: its except branch returns
\* (base_response, []).
EnhanceResponseFails ==
    /\ pc = "fetch"
    /\ sources' = <<>>
    /\ concepts' = <<>>
    /\ live_call' = "returned"
    /\ pc' = "merge"
    /\ UNCHANGED <<agent, query, base_response, enhanced>>
    /\ UNCHANGED <<text_len, factor_counts, return_confidence, validation_adj, response>>
    /\ UNCHANGED <<val_vars, ext_vars>>

\* The live call itself raises into _enhance_with_systems, whose except branch
\* logs a warning.
LiveCallRaises ==
    /\ pc = "fetch"
    /\ live_call' = "raised"
    /\ pc' = "merge"
    /\ UNCHANGED <<agent, query, base_response, concepts, sources, enhanced>>
    /\ UNCHANGED <<text_len, factor_counts, return_confidence, validation_adj, response>>
    /\ UNCHANGED <<val_vars, ext_vars>>

\* What the live call handed back to _enhance_with_systems.
LiveResult ==
    IF live_call = "returned"
    THEN [kind |-> "returned",
          text |-> IntegrateSourcesIntoResponse(OrEmpty(base_response), sources),
          sources |-> sources]
    ELSE NoResult

\* The rest of _enhance_with_systems: the curated store, the merge, the FAIR
\* enhancement and the template fallback.
EnhanceWithSystems ==
    /\ \/ pc = "merge"
       \/ pc = "enhance" /\ ~HasAttr(agent, "internet_rag")
    /\ \E retrieval \in RetrievalOutcomes, evidence_outcome \in TextOutcomes,
          fair_outcome \in TextOutcomes :
           enhanced' = EnhanceResult(agent, query, base_response, LiveResult,
                                     retrieval, evidence_outcome, fair_outcome)
    /\ live_call' = IF pc = "enhance" THEN "skipped" ELSE live_call
    /\ pc' = "done"
    /\ UNCHANGED <<agent, query, base_response, concepts, sources>>
    /\ UNCHANGED <<text_len, factor_counts, return_confidence, validation_adj, response>>
    /\ UNCHANGED <<val_vars, ext_vars>>

AggNext ==
    \/ EnhanceResponseBegin
    \/ FetchConcept
    \/ EnhanceResponseReturn
    \/ EnhanceResponseFails
    \/ LiveCallRaises
    \/ EnhanceWithSystems

AggSpec == AggInit /\ [][AggNext]_vars

(***************************************************************************)
(* Claims about the evidence aggregation                                   *)
(***************************************************************************)

\* What the two sources produced for the request: the list the curated store
\* returned (empty when it raised or was not asked) and the list the live
\* search returned (empty when it raised or was not asked).
CuratedProduced ==
    IF enhanced.retrieved.raised THEN <<>> ELSE enhanced.retrieved.items
LiveProduced ==
    IF live_call = "returned" THEN sources ELSE <<>>

Returned == pc = "done" /\ enhanced.kind = "result"

\* C4: the merged source list is the curated items in their order followed by
\* the live items in their order when both are non-empty, it is exactly the
\* non-empty one when only one is, and in no result does a live item come
\* before a curated item.
C4_MergeOrder ==
    Returned =>
        LET merged == enhanced.all_sources
        IN  /\ (CuratedProduced # <<>> /\ LiveProduced # <<>>)
                 => merged = CuratedProduced \o LiveProduced
            /\ (CuratedProduced # <<>> /\ LiveProduced = <<>>) => merged = CuratedProduced
            /\ (CuratedProduced = <<>> /\ LiveProduced # <<>>) => merged = LiveProduced
            /\ \A i, j \in 1 .. Len(merged) :
                   (merged[i].origin = "live" /\ merged[j].origin = "curated") => j < i

\* Curated=[A,B] and Live=[C] merged into [A,B,C].
C4_Witness ==
    /\ Returned
    /\ Len(CuratedProduced) = 2
    /\ Len(LiveProduced) = 1
    /\ enhanced.all_sources = CuratedProduced \o LiveProduced
    /\ enhanced.all_sources[3].origin = "live"

\* C5: the no-evidence notice is in the answer, appended by the merge step, if
\* and only if both the curated store and the live search produced zero items,
\* and then the merged source list is empty.
C5_NoticeIffNoEvidence ==
    Returned =>
        LET none_found == CuratedProduced = <<>> /\ LiveProduced = <<>>
        IN  /\ Contains(enhanced.merged_response, Notice(agent)) <=> none_found
            /\ Contains(enhanced.enhanced_response, Notice(agent)) <=> none_found
            /\ none_found => enhanced.all_sources = <<>>

\* Both sources were asked, both came back empty, and the answer carries the notice.
C5_Witness ==
    /\ Returned
    /\ agent = "finance"
    /\ live_call = "returned" /\ sources = <<>>
    /\ ~enhanced.retrieved.raised /\ enhanced.retrieved.items = <<>>
    /\ Contains(enhanced.enhanced_response, Notice(agent))
    /\ enhanced.all_sources = <<>>

\* s occurs in t as a block of consecutive items
IsBlockOf(s, t) ==
    \E k \in 0 .. Len(t) :
        k + Len(s) <= Len(t) /\ SubSeq(t, k + 1, k + Len(s)) = s

LiveFailed    == live_call = "raised" \/ (live_call = "returned" /\ sources = <<>>)
CuratedFailed == enhanced.retrieved.raised \/ enhanced.retrieved.items = <<>>

\* C6: when the live call raises or returns nothing, every curated item of the
\* request is in the merged list; when the curated call raises or returns
\* nothing, every live item is; and the call still returns its normal result.
C6_FailureContainment ==
    (pc = "done") =>
        /\ enhanced.kind = "result"
        /\ LiveFailed => IsBlockOf(CuratedProduced, enhanced.all_sources)
        /\ CuratedFailed => IsBlockOf(LiveProduced, enhanced.all_sources)
        /\ enhanced.internet_source_count = Len(LiveProduced)

\* The live call raised after the curated store had answered with two items,
\* and both are returned.
C6_Witness ==
    /\ Returned
    /\ live_call = "raised"
    /\ Len(CuratedProduced) = 2
    /\ enhanced.all_sources = CuratedProduced

\* The curated store raised and the live items are returned.
C6_WitnessCuratedRaised ==
    /\ Returned
    /\ enhanced.retrieved.raised
    /\ LiveProduced # <<>>
    /\ enhanced.all_sources = LiveProduced

\* C7: the merged evidence list never contains two items with the same URL.
C7_NoDuplicateUrls ==
    Returned =>
        \A i, j \in 1 .. Len(enhanced.all_sources) :
            enhanced.all_sources[i].url = enhanced.all_sources[j].url => i = j

(***************************************************************************)
(* AnswerValidator (src/src/validation/answer_validator.py)                *)
(*                                                                         *)
(* An answer is a text: a sequence of fragments, read one after the other. *)
(* What the validator's regular expressions and `in` tests find in a       *)
(* fragment is tabulated in FragmentFacts; no keyword of the lists below   *)
(* straddles two fragments of the answers built here.  The scores are in   *)
(* thousandths.                                                            *)
(***************************************************************************)

\* Sentences an answer is made of.
Fragments ==
    { "You should invest in index funds for steady long-term growth.",
      "Invest in X, guaranteed return.",
      "Please consult a professional.",
      "[Source 1]",
      "The treatment always helps with migraine pain,",
      "We calculate a yield of 7 percent.",
      "Returns of 150%pa were reported.",
      "A sum of 2000000 dollars.",
      "Ok." }

Questions == {"Should I invest in index funds?", "What treatment helps a migraine?"}

Domains == {"medical", "finance", "general"}

\* Longest answer, in sentences, and longest evidence list handed to the validator.
MaxFragments == 3
MaxEvidence == 2

\* " ".join(sentences)
RECURSIVE JoinWithSpaces(_)
JoinWithSpaces(fs) ==
    IF Len(fs) <= 1 THEN fs
    ELSE <<Head(fs), " ">> \o JoinWithSpaces(Tail(fs))

FinancialDisclaimer ==
    "This is educational information, not financial advice. Consult a qualified financial advisor before making investment decisions."

MedicalDisclaimer ==
    "This information is for educational purposes only. Always consult a qualified healthcare provider for medical advice."

\* The finance disclaimer as str.upper() gives it.
FinancialDisclaimerUpper ==
    "THIS IS EDUCATIONAL INFORMATION, NOT FINANCIAL ADVICE. CONSULT A QUALIFIED FINANCIAL ADVISOR BEFORE MAKING INVESTMENT DECISIONS."

\* self.medical_safety_keywords, self.financial_safety_keywords
medical_safety_keywords ==
    {"treatment", "medication", "drug", "dose", "symptom", "diagnosis", "therapy", "surgery", "prescription", "condition", "disease"}
financial_safety_keywords ==
    {"invest", "stock", "trade", "buy", "sell", "portfolio", "recommendation", "advice", "should invest", "guaranteed"}

\* _validate_medical_safety
required_phrases ==
    {"consult", "healthcare provider", "medical professional", "doctor", "physician", "professional advice"}
absolute_terms ==
    {"always", "never", "definitely", "guaranteed", "cure"}

\* _validate_financial_safety
disclaimer_phrases ==
    {"not financial advice", "consult", "financial advisor", "professional advice", "past performance", "risk"}
dangerous_terms ==
    {"guaranteed profit", "guaranteed return", "no risk", "cant lose"}

\* _validate_numerical_consistency
calc_keywords ==
    {"calculate", "compute", "formula", "equation"}

\* _validate_completeness
stop_words ==
    {"could", "does", "have", "should", "what", "when", "where", "which", "would"}

NoFacts == [citations |-> 0, numbers |-> <<>>, contains |-> {}, open_end |-> FALSE]

\* What the validator finds in one fragment:
\*   citations: len(re.findall(r'\[Source \d+\]', f))
\*   numbers:   re.findall(r'\b\d+\.?\d*%?\b', f), each with its value and
\*              whether the match ends with '%'
\*   contains:  the keywords, phrases and question words w with w in f.lower()
\*   open_end:  f.rstrip() ends with '...' or ','
FragmentFacts(f) ==
    CASE f = "You should invest in index funds for steady long-term growth." ->
          [citations |-> 0, numbers |-> <<>>,
           contains |-> {"funds", "index", "invest", "should invest"}, open_end |-> FALSE]
      [] f = "Invest in X, guaranteed return." ->
          [citations |-> 0, numbers |-> <<>>,
           contains |-> {"guaranteed", "guaranteed return", "invest"}, open_end |-> FALSE]
      [] f = "Please consult a professional." ->
          [citations |-> 0, numbers |-> <<>>,
           contains |-> {"consult"}, open_end |-> FALSE]
      [] f = "[Source 1]" ->
          [citations |-> 1, numbers |-> <<[value |-> 1, percent |-> FALSE]>>,
           contains |-> {}, open_end |-> FALSE]
      [] f = "The treatment always helps with migraine pain," ->
          [citations |-> 0, numbers |-> <<>>,
           contains |-> {"always", "helps", "migraine", "treatment"}, open_end |-> TRUE]
      [] f = "We calculate a yield of 7 percent." ->
          [citations |-> 0, numbers |-> <<[value |-> 7, percent |-> FALSE]>>,
           contains |-> {"calculate"}, open_end |-> FALSE]
      [] f = "Returns of 150%pa were reported." ->
          [citations |-> 0, numbers |-> <<[value |-> 150, percent |-> TRUE]>>,
           contains |-> {}, open_end |-> FALSE]
      [] f = "A sum of 2000000 dollars." ->
          [citations |-> 0, numbers |-> <<[value |-> 2000000, percent |-> FALSE]>>,
           contains |-> {}, open_end |-> FALSE]
      [] f = "Ok." ->
          [citations |-> 0, numbers |-> <<>>,
           contains |-> {}, open_end |-> FALSE]
      [] f = FinancialDisclaimer ->
          [citations |-> 0, numbers |-> <<>>,
           contains |-> {"advice", "consult", "financial advisor", "invest", "not financial advice"}, open_end |-> FALSE]
      [] f = MedicalDisclaimer ->
          [citations |-> 0, numbers |-> <<>>,
           contains |-> {"advice", "always", "consult", "healthcare provider"}, open_end |-> FALSE]
      [] f = FinancialDisclaimerUpper ->
          [citations |-> 0, numbers |-> <<>>,
           contains |-> {"advice", "consult", "financial advisor", "invest", "not financial advice"}, open_end |-> FALSE]
      [] f = LlmAnswer ->
          [citations |-> 0, numbers |-> <<>>,
           contains |-> {"funds", "index"}, open_end |-> FALSE]
      [] f = FinanceNotice ->
          [citations |-> 0, numbers |-> <<>>,
           contains |-> {}, open_end |-> FALSE]
      [] f = MedicalNotice ->
          [citations |-> 0, numbers |-> <<>>,
           contains |-> {}, open_end |-> FALSE]
      [] f = LiveHeader ->
          [citations |-> 0, numbers |-> <<>>,
           contains |-> {}, open_end |-> FALSE]
      [] f = LiveEntry ->
          [citations |-> 0, numbers |-> <<[value |-> 1, percent |-> FALSE],
                         [value |-> 92, percent |-> FALSE]>>,
           contains |-> {}, open_end |-> FALSE]
      [] f = LiveTrailer ->
          [citations |-> 0, numbers |-> <<[value |-> 1, percent |-> FALSE],
                         [value |-> 92, percent |-> FALSE],
                         [value |-> 2025, percent |-> FALSE],
                         [value |-> 1, percent |-> FALSE],
                         [value |-> 1, percent |-> FALSE],
                         [value |-> 12, percent |-> FALSE],
                         [value |-> 0, percent |-> FALSE]>>,
           contains |-> {}, open_end |-> FALSE]
      [] f = EvidenceContext ->
          [citations |-> 0, numbers |-> <<>>,
           contains |-> {}, open_end |-> FALSE]
      [] f = SafetyText ->
          [citations |-> 0, numbers |-> <<>>,
           contains |-> {}, open_end |-> FALSE]
      [] f = RoiTemplate ->
          [citations |-> 0, numbers |-> <<[value |-> 100, percent |-> FALSE]>>,
           contains |-> {"always", "calculate", "condition", "formula", "invest", "past performance", "risk"}, open_end |-> FALSE]
      [] f = InvestmentTemplate ->
          [citations |-> 0, numbers |-> <<>>,
           contains |-> {"advice", "always", "consult", "financial advisor", "funds", "helps", "index", "invest", "past performance", "portfolio", "risk"}, open_end |-> FALSE]
      [] f = BudgetTemplate ->
          [citations |-> 0, numbers |-> <<[value |-> 50, percent |-> FALSE],
                         [value |-> 30, percent |-> FALSE],
                         [value |-> 20, percent |-> FALSE],
                         [value |-> 50, percent |-> FALSE],
                         [value |-> 30, percent |-> FALSE],
                         [value |-> 20, percent |-> FALSE],
                         [value |-> 3, percent |-> FALSE],
                         [value |-> 6, percent |-> FALSE]>>,
           contains |-> {"budget", "expenses", "invest"}, open_end |-> FALSE]
      [] f = DebtTemplate ->
          [citations |-> 0, numbers |-> <<[value |-> 30, percent |-> FALSE]>>,
           contains |-> {}, open_end |-> FALSE]
      [] f = MedicalTemplate ->
          [citations |-> 0, numbers |-> <<>>,
           contains |-> {"advice", "always", "consult", "diagnosis", "healthcare provider", "medication", "recommendation", "treatment"}, open_end |-> FALSE]
      [] f = "The fund gained 150% last year." ->
          [citations |-> 0, numbers |-> <<[value |-> 150, percent |-> FALSE]>>,
           contains |-> {}, open_end |-> FALSE]
      [] f = "Growth reached 250%." ->
          [citations |-> 0, numbers |-> <<[value |-> 250, percent |-> FALSE]>>,
           contains |-> {}, open_end |-> FALSE]
      [] f = "It returned 300%" ->
          [citations |-> 0, numbers |-> <<[value |-> 300, percent |-> FALSE]>>,
           contains |-> {}, open_end |-> FALSE]
      [] f = "We will compute the result later." ->
          [citations |-> 0, numbers |-> <<>>,
           contains |-> {"compute"}, open_end |-> FALSE]
      [] f = "The formula uses 3 and 4." ->
          [citations |-> 0, numbers |-> <<[value |-> 3, percent |-> FALSE], [value |-> 4, percent |-> FALSE]>>,
           contains |-> {"formula"}, open_end |-> FALSE]
      [] OTHER -> NoFacts

\* re.findall(r'\b\w{4,}\b', question.lower())
LongWords(qn) ==
    CASE qn = "Should I invest in index funds?" -> {"funds", "index", "invest", "should"}
      [] qn = "What treatment helps a migraine?" -> {"helps", "migraine", "treatment", "what"}
      [] qn = "How risky are stocks and bonds for retirement?" -> {"bonds", "retirement", "risky", "stocks"}
      [] qn = "How do I budget my expenses?" -> {"budget", "expenses"}
      [] qn = "What is a mortgage?" -> {"mortgage", "what"}
      [] qn = "What treatment helps chronic pain?" -> {"chronic", "helps", "pain", "treatment", "what"}
      [] qn = "What is a migraine?" -> {"migraine", "what"}
      [] qn = "Is there a cancer treatment I can try?" -> {"cancer", "there", "treatment"}
      [] OTHER -> {}

\* str.lower() of a fragment; a fragment without capitals is its own value
Lower(f) ==
    CASE f = "You should invest in index funds for steady long-term growth." -> "you should invest in index funds for steady long-term growth."
      [] f = "Invest in X, guaranteed return." -> "invest in x, guaranteed return."
      [] f = "Please consult a professional." -> "please consult a professional."
      [] f = "[Source 1]" -> "[source 1]"
      [] f = "The treatment always helps with migraine pain," -> "the treatment always helps with migraine pain,"
      [] f = "We calculate a yield of 7 percent." -> "we calculate a yield of 7 percent."
      [] f = "Returns of 150%pa were reported." -> "returns of 150%pa were reported."
      [] f = "A sum of 2000000 dollars." -> "a sum of 2000000 dollars."
      [] f = "Ok." -> "ok."
      [] f = FinancialDisclaimer -> "this is educational information, not financial advice. consult a qualified financial advisor before making investment decisions."
      [] f = MedicalDisclaimer -> "this information is for educational purposes only. always consult a qualified healthcare provider for medical advice."
      [] f = FinancialDisclaimerUpper -> "this is educational information, not financial advice. consult a qualified financial advisor before making investment decisions."
      [] f = "\n\n**!! Important:** " -> "\n\n**!! important:** "
      [] f = "The fund gained 150% last year." -> "the fund gained 150% last year."
      [] f = "Growth reached 250%." -> "growth reached 250%."
      [] f = "It returned 300%" -> "it returned 300%"
      [] f = "We will compute the result later." -> "we will compute the result later."
      [] f = "The formula uses 3 and 4." -> "the formula uses 3 and 4."
      [] OTHER -> f

LowerText(t) == [i \in 1 .. Len(t) |-> Lower(t[i])]

\* `kw in answer_lower`
AnswerHas(t, kw) == \E i \in 1 .. Len(t) : kw \in FragmentFacts(t[i]).contains

\* any(kw in answer_lower for kw in kws)
AnyIn(t, kws) == \E kw \in kws : AnswerHas(t, kw)

RECURSIVE CitationCount(_)
CitationCount(t) ==
    IF t = <<>> THEN 0 ELSE FragmentFacts(Head(t)).citations + CitationCount(Tail(t))

RECURSIVE NumbersIn(_)
NumbersIn(t) ==
    IF t = <<>> THEN <<>> ELSE FragmentFacts(Head(t)).numbers \o NumbersIn(Tail(t))

IsWhitespace(f) == f \in {" ", "\n\n"}

\* str.rstrip() and str.strip() of a text whose fragments are either all
\* whitespace or neither start nor end with whitespace
RECURSIVE RStrip(_)
RStrip(t) ==
    IF t # <<>> /\ IsWhitespace(t[Len(t)]) THEN RStrip(SubSeq(t, 1, Len(t) - 1)) ELSE t

RECURSIVE LStrip(_)
LStrip(t) ==
    IF t # <<>> /\ IsWhitespace(Head(t)) THEN LStrip(Tail(t)) ELSE t

Strip(t) == LStrip(RStrip(t))

\* AnswerValidator._validate_citations
ValidateCitations(a, ev) ==
    LET citation_count == CitationCount(a)
        expected_min_citations == Len(ev)
    IN  IF ev = <<>> THEN [score |-> 700, issues |-> <<>>]
        ELSE IF citation_count = 0
        THEN [score |-> 200, issues |-> <<"Response lacks evidence citations">>]
        ELSE IF citation_count < expected_min_citations
        THEN [score  |-> 500 + (citation_count * 300) \div expected_min_citations,
              issues |-> <<"Underutilized evidence">>]
        ELSE [score |-> 900, issues |-> <<>>]

\* AnswerValidator._validate_numerical_consistency
ValidateNumericalConsistency(a) ==
    LET numbers == NumbersIn(a)
        invalid_percentages ==
            SelectSeq(numbers, LAMBDA n : n.percent /\ n.value > 100)
        numeric_values == SelectSeq(numbers, LAMBDA n : ~n.percent)
    IN  IF numbers = <<>> THEN [score |-> 1000, issues |-> <<>>]
        ELSE IF invalid_percentages # <<>>
        THEN [score |-> 400, issues |-> <<"Suspicious percentage values">>]
        ELSE IF \E i \in 1 .. Len(numeric_values) : numeric_values[i].value > 1000000
        THEN [score |-> 600, issues |-> <<"Extremely large numerical value detected">>]
        ELSE IF AnyIn(a, calc_keywords) /\ Len(numbers) < 2
        THEN [score |-> 500, issues |-> <<"Calculation mentioned but results not shown">>]
        ELSE [score |-> 950, issues |-> <<>>]

AddDisclaimer == "ADD DISCLAIMER:"
RemoveCorrection == "REMOVE: Guaranteed return claims are false and misleading"
CriticalIssue == "CRITICAL: Financial response makes dangerous guarantee claims"

\* AnswerValidator._validate_medical_safety
ValidateMedicalSafety(a) ==
    IF ~AnyIn(a, medical_safety_keywords)
    THEN [score |-> 1000, issues |-> <<>>, corrections |-> <<>>]
    ELSE IF ~AnyIn(a, required_phrases)
    THEN [score |-> 300,
          issues |-> <<"Medical response lacks professional consultation disclaimer">>,
          corrections |-> << <<AddDisclaimer, " ", MedicalDisclaimer>> >>]
    ELSE IF AnyIn(a, absolute_terms)
    THEN [score |-> 700,
          issues |-> <<"Medical response uses absolute language (risky)">>,
          corrections |-> <<>>]
    ELSE [score |-> 950, issues |-> <<>>, corrections |-> <<>>]

\* AnswerValidator._validate_financial_safety
ValidateFinancialSafety(a) ==
    IF ~AnyIn(a, financial_safety_keywords)
    THEN [score |-> 1000, issues |-> <<>>, corrections |-> <<>>]
    ELSE IF ~AnyIn(a, disclaimer_phrases)
    THEN [score |-> 400,
          issues |-> <<"Financial advice lacks appropriate disclaimers">>,
          corrections |-> << <<AddDisclaimer, " ", FinancialDisclaimer>> >>]
    ELSE IF AnyIn(a, dangerous_terms)
    THEN [score |-> 200,
          issues |-> <<CriticalIssue>>,
          corrections |-> << <<RemoveCorrection>> >>]
    ELSE [score |-> 950, issues |-> <<>>, corrections |-> <<>>]

\* AnswerValidator._validate_domain_safety
ValidateDomainSafety(a, d) ==
    IF d = "medical" THEN ValidateMedicalSafety(a)
    ELSE IF d = "finance" THEN ValidateFinancialSafety(a)
    ELSE [score |-> 1000, issues |-> <<>>, corrections |-> <<>>]

\* Mutant of ValidateCompleteness: the ending is looked at before the length.
ValidateCompletenessEndingFirst(a, qn) ==
    LET question_words == LongWords(qn) \ stop_words
        addressed_words == Cardinality({w \in question_words : AnswerHas(a, w)})
        stripped == RStrip(a)
    IN  IF stripped # <<>> /\ FragmentFacts(stripped[Len(stripped)]).open_end
        THEN [score |-> 500, issues |-> <<"Response appears incomplete">>]
        ELSE IF TextLen(a) < 50
        THEN [score |-> 300, issues |-> <<"Response too short">>]
        ELSE IF question_words # {} /\ 10 * addressed_words < 3 * Cardinality(question_words)
        THEN [score |-> 400, issues |-> <<"Response doesn't address key question terms">>]
        ELSE IF question_words # {} /\ 2 * addressed_words < Cardinality(question_words)
        THEN [score |-> 700, issues |-> <<"Response partially addresses question">>]
        ELSE [score |-> 950, issues |-> <<>>]

\* AnswerValidator._validate_completeness
ValidateCompleteness(a, qn) ==
    LET question_words == LongWords(qn) \ stop_words
        addressed_words == Cardinality({w \in question_words : AnswerHas(a, w)})
        stripped == RStrip(a)
    IN  IF TextLen(a) < 50
        THEN [score |-> 300, issues |-> <<"Response too short">>]
        ELSE IF stripped # <<>> /\ FragmentFacts(stripped[Len(stripped)]).open_end
        THEN [score |-> 500, issues |-> <<"Response appears incomplete">>]
        ELSE IF question_words # {} /\ 10 * addressed_words < 3 * Cardinality(question_words)
        THEN [score |-> 400, issues |-> <<"Response doesn't address key question terms">>]
        ELSE IF question_words # {} /\ 2 * addressed_words < Cardinality(question_words)
        THEN [score |-> 700, issues |-> <<"Response partially addresses question">>]
        ELSE [score |-> 950, issues |-> <<>>]

\* Mutant of IsValid: the mean of the four scores decides.
IsValidByMean(citation_score, numerical_score, safety_score, completeness_score) ==
    citation_score + numerical_score + safety_score + completeness_score >= 4 * 600

\* validate_response: is_valid
\* Mutant of IsValid: an answer needs a citation score of 0.8.
IsValidStrictCitations(citation_score, numerical_score, safety_score, completeness_score) ==
    /\ citation_score >= 800
    /\ numerical_score >= 500
    /\ safety_score >= 600
    /\ completeness_score >= 400

IsValid(citation_score, numerical_score, safety_score, completeness_score) ==
    /\ citation_score >= 400
    /\ numerical_score >= 500
    /\ safety_score >= 600
    /\ completeness_score >= 400

\* The score tuples that add up to exactly 3.4 in thousandths and for which
\* the float sum, taken in the code's order, divided by 4 is 0.8500000000000001.
RoundsAboveBonus ==
    { <<700, 1000, 1000, 700>>, <<900, 600, 950, 950>> }

\* validate_response: `overall_quality > 0.85` as the floats decide it
QualityAboveBonus(citation_score, numerical_score, safety_score, completeness_score) ==
    \/ citation_score + numerical_score + safety_score + completeness_score > 4 * 850
    \/ <<citation_score, numerical_score, safety_score, completeness_score>> \in RoundsAboveBonus

\* Mutant of ConfidenceAdjustment: an incomplete answer costs as much as a
\* numerical error.
ConfidenceAdjustmentHarshOnLength(citation, numerical, safety, completeness) ==
    LET penalties ==
            (IF citation.issues # <<>> /\ citation.score < 500 THEN CitationPenalty ELSE 0)
          + (IF numerical.issues # <<>> /\ numerical.score < 600 THEN NumericalPenalty ELSE 0)
          + (IF safety.score < 700 THEN SafetyPenalty ELSE 0)
          + (IF completeness.issues # <<>> /\ completeness.score < 500
             THEN NumericalPenalty ELSE 0)
        bonus ==
            IF QualityAboveBonus(citation.score, numerical.score, safety.score,
                                 completeness.score)
            THEN QualityBonus ELSE 0
    IN  bonus - penalties

\* Mutant of ConfidenceAdjustment: the safety penalty is applied to every
\* safety score short of 1.0.
ConfidenceAdjustmentSafetyBelowOne(citation, numerical, safety, completeness) ==
    LET penalties ==
            (IF citation.issues # <<>> /\ citation.score < 500 THEN CitationPenalty ELSE 0)
          + (IF numerical.issues # <<>> /\ numerical.score < 600 THEN NumericalPenalty ELSE 0)
          + (IF safety.score < 1000 THEN SafetyPenalty ELSE 0)
          + (IF completeness.issues # <<>> /\ completeness.score < 500
             THEN CompletenessPenalty ELSE 0)
        bonus ==
            IF QualityAboveBonus(citation.score, numerical.score, safety.score,
                                 completeness.score)
            THEN QualityBonus ELSE 0
    IN  bonus - penalties

\* validate_response: confidence_adjustment, from the results of the four checks
ConfidenceAdjustment(citation, numerical, safety, completeness) ==
    LET penalties ==
            (IF citation.issues # <<>> /\ citation.score < 500 THEN CitationPenalty ELSE 0)
          + (IF numerical.issues # <<>> /\ numerical.score < 600 THEN NumericalPenalty ELSE 0)
          + (IF safety.score < 700 THEN SafetyPenalty ELSE 0)
          + (IF completeness.issues # <<>> /\ completeness.score < 500
             THEN CompletenessPenalty ELSE 0)
        bonus ==
            IF QualityAboveBonus(citation.score, numerical.score, safety.score,
                                 completeness.score)
            THEN QualityBonus ELSE 0
    IN  bonus - penalties

\* AnswerValidator.validate_response.  quality_sum is 4 * quality_score.
validate_response(a, qn, d, ev) ==
    LET citation     == ValidateCitations(a, ev)
        numerical    == ValidateNumericalConsistency(a)
        safety       == ValidateDomainSafety(a, d)
        completeness == ValidateCompleteness(a, qn)
    IN  [kind |-> "result",
         is_valid |-> IsValid(citation.score, numerical.score, safety.score,
                              completeness.score),
         confidence_adjustment |-> ConfidenceAdjustment(citation, numerical, safety,
                                                        completeness),
         corrections |-> safety.corrections,
         warnings |-> citation.issues \o numerical.issues \o safety.issues
                        \o completeness.issues,
         quality_sum |-> citation.score + numerical.score + safety.score
                           + completeness.score,
         citation_score |-> citation.score,
         numerical_score |-> numerical.score,
         safety_score |-> safety.score,
         completeness_score |-> completeness.score]

\* "\n\n**(warning sign) Important:** "
ImportantPrefix == "\n\n**!! Important:** "

\* correction.replace("ADD DISCLAIMER:", "").strip()
DisclaimerOf(correction) ==
    Strip(SelectSeq(correction, LAMBDA f : f # AddDisclaimer))

\* disclaimer.lower() in corrected_answer.lower()
AlreadyPresent(disclaimer, t) == IsBlockOf(LowerText(disclaimer), LowerText(t))

\* Mutant of ApplyCorrection: the disclaimer is appended without looking for it.
ApplyCorrectionUnchecked(corrected_answer, correction) ==
    IF correction # <<>> /\ Head(correction) = AddDisclaimer
    THEN corrected_answer \o <<ImportantPrefix>> \o DisclaimerOf(correction)
    ELSE corrected_answer

\* Mutant of ApplyCorrection: a REMOVE directive takes the sentence with the
\* guarantee out of the answer.
ApplyCorrectionRemoving(corrected_answer, correction) ==
    IF correction # <<>> /\ Head(correction) = AddDisclaimer
    THEN IF ~AlreadyPresent(DisclaimerOf(correction), corrected_answer)
         THEN corrected_answer \o <<ImportantPrefix>> \o DisclaimerOf(correction)
         ELSE corrected_answer
    ELSE IF correction = <<RemoveCorrection>>
    THEN SelectSeq(corrected_answer, LAMBDA f : f # "Invest in X, guaranteed return.")
    ELSE corrected_answer

\* One turn of the loop of apply_corrections
ApplyCorrection(corrected_answer, correction) ==
    IF correction # <<>> /\ Head(correction) = AddDisclaimer
    THEN IF ~AlreadyPresent(DisclaimerOf(correction), corrected_answer)
         THEN corrected_answer \o <<ImportantPrefix>> \o DisclaimerOf(correction)
         ELSE corrected_answer
    ELSE corrected_answer

RECURSIVE ApplyAll(_, _)
ApplyAll(corrected_answer, cs) ==
    IF cs = <<>> THEN corrected_answer
    ELSE ApplyAll(ApplyCorrection(corrected_answer, Head(cs)), Tail(cs))

\* AnswerValidator.apply_corrections
apply_corrections(a, validation_result) == ApplyAll(a, validation_result.corrections)

(***************************************************************************)
(* Validating an answer and applying the corrections                       *)
(***************************************************************************)

EvidenceLists == {[i \in 1 .. n |-> i] : n \in 0 .. MaxEvidence}

ValInit ==
    /\ CalibIdle
    /\ AggIdle
    /\ ExtIdle
    /\ pc = "validate"
    /\ agent = "finance"
    /\ answer \in {JoinWithSpaces(fs) : fs \in SeqsUpTo(Fragments, MaxFragments)}
    /\ question \in Questions
    /\ domain \in Domains
    /\ evidence_sources \in EvidenceLists
    /\ validation = NoValidation
    /\ corrected = <<>>

\* AnswerValidator.validate_response(answer, question, domain, evidence_sources)
ValidateResponse ==
    /\ pc = "validate"
    /\ validation' = validate_response(answer, question, domain, evidence_sources)
    /\ pc' = "validated"
    /\ UNCHANGED <<answer, question, domain, evidence_sources, corrected>>
    /\ UNCHANGED <<agent, text_len, factor_counts, return_confidence, validation_adj, response>>
    /\ UNCHANGED <<agg_vars, ext_vars>>

\* AnswerValidator.apply_corrections, called on the answer and then once more
\* on its own result with the same validation result.
ApplyCorrections ==
    /\ pc \in {"validated", "corrected"}
    /\ Len(corrected) < 2
    /\ corrected' = Append(corrected,
                           apply_corrections(IF corrected = <<>> THEN answer
                                             ELSE corrected[Len(corrected)],
                                             validation))
    /\ pc' = "corrected"
    /\ UNCHANGED <<answer, question, domain, evidence_sources, validation>>
    /\ UNCHANGED <<agent, text_len, factor_counts, return_confidence, validation_adj, response>>
    /\ UNCHANGED <<agg_vars, ext_vars>>

ValNext ==
    \/ ValidateResponse
    \/ ApplyCorrections

ValSpec == ValInit /\ [][ValNext]_vars

(***************************************************************************)
(* validate_response on answers that carry numbers                         *)
(***************************************************************************)

\* Sentences with percentages followed by a letter, a space, a full stop and
\* the end of the text, with and without calculation words, with no, one and
\* two numbers.
NumericFragments ==
    { "Returns of 150%pa were reported.",
      "The fund gained 150% last year.",
      "Growth reached 250%.",
      "It returned 300%",
      "We calculate a yield of 7 percent.",
      "We will compute the result later.",
      "The formula uses 3 and 4.",
      "Please consult a professional." }

\* The percentages written in a fragment, as a reader finds them:
\* re.findall(r'\d+\.?\d*%', f) without the sign.
WrittenPercentages(f) ==
    CASE f \in {"Returns of 150%pa were reported.", "The fund gained 150% last year."} -> {150}
      [] f = "Growth reached 250%." -> {250}
      [] f = "It returned 300%" -> {300}
      [] OTHER -> {}

PercentagesIn(t) == UNION {WrittenPercentages(t[i]) : i \in 1 .. Len(t)}

NumInit ==
    /\ CalibIdle
    /\ AggIdle
    /\ ExtIdle
    /\ pc = "validate"
    /\ agent = "finance"
    /\ answer \in {JoinWithSpaces(fs) : fs \in SeqsUpTo(NumericFragments, MaxFragments)}
    /\ question \in Questions
    /\ domain \in Domains
    /\ evidence_sources \in EvidenceLists
    /\ validation = NoValidation
    /\ corrected = <<>>

NumSpec == NumInit /\ [][ValNext]_vars

Warned(issue) ==
    \E i \in 1 .. Len(validation.warnings) : validation.warnings[i] = issue

\* C24: every answer that contains a percentage greater than 100% (such as
\* "150%" followed by a space, by punctuation or by the end of the text) gets
\* numeric-consistency score 0.4 and a suspicious-percentage warning.
C24_PercentageOver100Flagged ==
    (validation.kind = "result" /\ \E v \in PercentagesIn(answer) : v > 100) =>
        /\ validation.numerical_score = 400
        /\ Warned("Suspicious percentage values")

\* C25: every answer that uses calculation language ("calculate", "compute",
\* "formula", "equation") and contains fewer than two numeric tokens, none at
\* all included, gets numeric-consistency score 0.5 (unless a percentage or
\* a magnitude was flagged first); an answer with no flagged problem gets 0.95.
C25_CalculationWithoutNumbers ==
    (/\ validation.kind = "result"
     /\ ~Warned("Suspicious percentage values")
     /\ ~Warned("Extremely large numerical value detected")) =>
        /\ (AnyIn(answer, calc_keywords) /\ Len(NumbersIn(answer)) < 2)
              => validation.numerical_score = 500
        /\ ~Warned("Calculation mentioned but results not shown")
              => validation.numerical_score = 950

\* Answers and validation results handed to apply_corrections directly: the
\* corrections the validator writes, and others a ValidationResult can hold.
CorrectionAnswers ==
    { <<>>,
      <<"Ok.">>,
      <<"Ok.", " ", FinancialDisclaimerUpper>>,
      <<"Ok.", ImportantPrefix, MedicalDisclaimer>>,
      <<"Invest in X, guaranteed return.">> }

CorrectionTexts ==
    { <<AddDisclaimer, " ", FinancialDisclaimer>>,
      <<AddDisclaimer, " ", MedicalDisclaimer>>,
      <<RemoveCorrection>>,
      <<AddDisclaimer, " ", FinancialDisclaimerUpper>>,
      <<AddDisclaimer>>,
      <<AddDisclaimer, " ", "Ok.", " ", AddDisclaimer, " ">>,
      <<"Ok.", " ", AddDisclaimer>> }

\* Longest list of corrections in a ValidationResult handed to apply_corrections.
MaxCorrections == 2

GivenValidation(cs) ==
    [kind |-> "given", is_valid |-> FALSE, corrections |-> cs]

CorrInit ==
    /\ CalibIdle
    /\ AggIdle
    /\ ExtIdle
    /\ pc = "validated"
    /\ agent = "finance"
    /\ answer \in CorrectionAnswers
    /\ question = ""
    /\ domain = "general"
    /\ evidence_sources = <<>>
    /\ validation \in {GivenValidation(cs) : cs \in SeqsUpTo(CorrectionTexts, MaxCorrections)}
    /\ corrected = <<>>

CorrNext == ApplyCorrections

CorrSpec == CorrInit /\ [][CorrNext]_vars

(***************************************************************************)
(* Claims about the validator                                              *)
(***************************************************************************)

Validated == validation.kind = "result"

\* C8: is_valid is true exactly when citation score >= 0.4 and numeric score
\* >= 0.5 and safety score >= 0.6 and completeness score >= 0.4, so one check
\* below its minimum makes it false whatever the mean quality score is.
C8_IsValidIffAllMinimaMet ==
    Validated =>
        /\ validation.is_valid <=>
              /\ validation.citation_score >= 400
              /\ validation.numerical_score >= 500
              /\ validation.safety_score >= 600
              /\ validation.completeness_score >= 400
        /\ (\/ validation.citation_score < 400
            \/ validation.numerical_score < 500
            \/ validation.safety_score < 600
            \/ validation.completeness_score < 400) => ~validation.is_valid

\* Only the citation check is below its minimum, the mean of the four scores
\* is above 0.75, and the response is invalid.
C8_Witness ==
    /\ Validated
    /\ validation.citation_score < 400
    /\ validation.numerical_score >= 500
    /\ validation.safety_score >= 600
    /\ validation.completeness_score >= 400
    /\ validation.quality_sum > 4 * 750
    /\ ~validation.is_valid

\* The numeric check alone is below its minimum.
C8_WitnessNumeric ==
    /\ Validated
    /\ validation.citation_score >= 400
    /\ validation.numerical_score < 500
    /\ validation.safety_score >= 600
    /\ validation.completeness_score >= 400
    /\ ~validation.is_valid

\* C9: in domain finance every answer with guarantee language such as
\* "guaranteed return", with or without a disclaimer phrase, gets a safety
\* score <= 0.2 with the critical issue, and is_valid is False.
C9_GuaranteeLanguageIsCritical ==
    (Validated /\ domain = "finance" /\ AnswerHas(answer, "guaranteed return")) =>
        /\ validation.safety_score <= 200
        /\ \E i \in 1 .. Len(validation.warnings) : validation.warnings[i] = CriticalIssue
        /\ ~validation.is_valid

\* C10: apply_corrections applied to its own result with the same validation
\* result changes nothing, and when every disclaimer is already in the answer,
\* in whatever case, nothing is appended.
C10_ApplyCorrectionsIdempotent ==
    /\ Len(corrected) = 2 => corrected[2] = corrected[1]
    /\ Len(corrected) >= 1 =>
          ((\A i \in 1 .. Len(validation.corrections) :
                LET correction == validation.corrections[i]
                IN  (correction # <<>> /\ Head(correction) = AddDisclaimer)
                       => AlreadyPresent(DisclaimerOf(correction), answer))
             => corrected[1] = answer)

\* A first application that appended a disclaimer, and a second that left it.
C10_Witness ==
    /\ Len(corrected) = 2
    /\ Len(corrected[1]) > Len(answer)
    /\ corrected[2] = corrected[1]

\* The disclaimer is in the answer in capitals and is not appended.
C10_WitnessOtherCase ==
    /\ Len(corrected) = 2
    /\ answer = <<"Ok.", " ", FinancialDisclaimerUpper>>
    /\ validation.corrections = << <<AddDisclaimer, " ", FinancialDisclaimer>> >>
    /\ corrected[1] = answer

\* C23: the citation check returns 0.7 when no evidence is supplied;
\* otherwise, with k citation markers in the answer and n evidence items, the
\* score is 0.2 + 0.7 * min(k, n) / n: linear from 0.2 at k = 0 to 0.9 at
\* k >= n.
C23_CitationScoreLinear ==
    validation.kind = "result" =>
        LET k == CitationCount(answer)
            n == Len(evidence_sources)
        IN  IF n = 0 THEN validation.citation_score = 700
            ELSE validation.citation_score * n = 200 * n + 700 * Min(k, n)

\* The sums of one or more of the four penalties.
PenaltySums ==
    {c + n + sf + cp : c \in {0, CitationPenalty}, n \in {0, NumericalPenalty},
                       sf \in {0, SafetyPenalty}, cp \in {0, CompletenessPenalty}} \ {0}

QualityEarnsBonus ==
    QualityAboveBonus(validation.citation_score, validation.numerical_score,
                      validation.safety_score, validation.completeness_score)

\* C27: in validate_response the +0.05 bonus and the penalties exclude each
\* other: whenever a penalty is applied quality_score is at most 0.85 and no
\* bonus is added, so confidence_adjustment is +0.05, 0 or minus a sum of
\* penalties.
C27_BonusExcludesPenalties ==
    validation.kind = "result" =>
        /\ QualityEarnsBonus => validation.confidence_adjustment = QualityBonus
        /\ ~QualityEarnsBonus =>
              \/ validation.confidence_adjustment = 0
              \/ -validation.confidence_adjustment \in PenaltySums

\* A penalised answer whose quality is the closest to the bonus that a
\* penalised answer reaches.
C27_Witness ==
    /\ validation.kind = "result"
    /\ validation.confidence_adjustment = -NumericalPenalty
    /\ validation.quality_sum = 3250

\* The bonus alone.
C27_WitnessBonus ==
    /\ validation.kind = "result"
    /\ validation.confidence_adjustment = QualityBonus
    /\ validation.citation_score = 900

\* C28: whenever validate_response returns is_valid = False, the
\* confidence_adjustment it returns is strictly negative, -0.08 or lower:
\* every check whose score is below its validity minimum reports an issue and
\* is penalised.
C28_InvalidIsPenalised ==
    (validation.kind = "result" /\ ~validation.is_valid) =>
        /\ validation.confidence_adjustment <= -CompletenessPenalty
        /\ validation.citation_score < 400
              => ValidateCitations(answer, evidence_sources).issues # <<>>
        /\ validation.numerical_score < 500
              => ValidateNumericalConsistency(answer).issues # <<>>
        /\ validation.safety_score < 600
              => ValidateDomainSafety(answer, domain).issues # <<>>
        /\ validation.completeness_score < 400
              => ValidateCompleteness(answer, question).issues # <<>>

\* An answer that is invalid for its length alone and gets exactly -0.08.
C28_Witness ==
    /\ validation.kind = "result"
    /\ ~validation.is_valid
    /\ validation.completeness_score = 300
    /\ validation.citation_score >= 400
    /\ validation.numerical_score >= 500
    /\ validation.safety_score >= 600
    /\ validation.confidence_adjustment = -CompletenessPenalty

\* s is the beginning of t.
IsPrefixOf(s, t) == Len(s) <= Len(t) /\ SubSeq(t, 1, Len(s)) = s

\* C29: apply_corrections only ever appends: the original answer is a prefix
\* of the result, corrections that do not start with "ADD DISCLAIMER:" (such
\* as the "REMOVE:" directive for guaranteed-return claims) leave the answer
\* unchanged, and the ValidationResult itself is not modified.
C29_CorrectionsOnlyAppend ==
    /\ [](Len(corrected) >= 1 =>
            /\ IsPrefixOf(answer, corrected[1])
            /\ (\A i \in 1 .. Len(validation.corrections) :
                    \/ validation.corrections[i] = <<>>
                    \/ Head(validation.corrections[i]) # AddDisclaimer)
                  => corrected[1] = answer)
    /\ [][corrected' # corrected => validation' = validation]_vars

\* The answer with the guarantee and the REMOVE directive: returned as it was.
C29_Witness ==
    /\ Len(corrected) >= 1
    /\ validation.corrections = <<<<RemoveCorrection>>>>
    /\ AnswerHas(answer, "guaranteed return")
    /\ corrected[1] = answer

\* A disclaimer appended behind the unchanged answer.
C29_WitnessAppended ==
    /\ Len(corrected) >= 1
    /\ answer # <<>>
    /\ corrected[1] # answer
    /\ IsPrefixOf(answer, corrected[1])

\* The items of a source list that come from the given source.
ItemsFrom(list, origin) == SelectSeq(list, LAMBDA e : e.origin = origin)

\* C22: the merged evidence list of one request never holds more than 8
\* curated items and never more than 3 live items, also for a query that
\* matches three live-search concepts.
C22_MergedListCapped ==
    Returned =>
        /\ Len(ItemsFrom(enhanced.all_sources, "curated")) <= 8
        /\ Len(ItemsFrom(enhanced.all_sources, "live")) <= 3

(***************************************************************************)
(* _add_structured_format and _synthesize_final_answer (both agents)       *)
(*                                                                         *)
(* A response is a text of paragraphs separated by blank lines.  What the  *)
(* regular expressions of the two methods find in a paragraph is tabulated *)
(* in ParagraphFacts.  The entries of the evidence header and of the       *)
(* source list of the synthesis are kept as records, not as lines of text. *)
(***************************************************************************)

PlainParagraph     == "Index funds spread risk across many companies."
CitingParagraph    == "Fees are low [Source 1]."
StepsParagraph     == "First, compare the costs."
SummaryParagraph   == "**Summary** Diversify your holdings."
ReferenceParagraph == "References: fund prospectus [Source 3]."

ParagraphTexts ==
    {PlainParagraph, CitingParagraph, StepsParagraph, SummaryParagraph, ReferenceParagraph}

ParagraphBreak == "\n\n"

\* Longest response, in paragraphs, and longest evidence list handed to the formatter.
MaxParagraphs == 5
MaxSources == 3

\* "\n\n".join(paragraphs)
RECURSIVE JoinParagraphs(_)
JoinParagraphs(ps) ==
    IF Len(ps) <= 1 THEN ps
    ELSE <<Head(ps), ParagraphBreak>> \o JoinParagraphs(Tail(ps))

NoParagraphFacts ==
    [cited |-> {}, steps |-> FALSE, bold |-> FALSE, evidence_section |-> FALSE, summary |-> FALSE]

\* What the two methods find in one fragment:
\*   cited:            the n of re.findall(r'\[Source (\d+)\]', f)
\*   steps:            re.search(r'(\*\*Step \d+|\bStep \d+:|First,|Next,|Then,|Finally,)', f, re.I)
\*   bold:             re.search(r'\*\*.*\*\*', f)
\*   evidence_section: re.search(r'(Evidence-Based Information|References:|Evidence Sources)', f, re.I)
\*   summary:          re.search(r'(FINAL RECOMMENDATION|Executive Summary|Summary)', f, re.I),
\*                     in the medical agent (MEDICAL SUMMARY|Clinical Summary|Summary)
ParagraphFacts(f) ==
    CASE f = CitingParagraph    -> [NoParagraphFacts EXCEPT !.cited = {1}]
      [] f = StepsParagraph     -> [NoParagraphFacts EXCEPT !.steps = TRUE]
      [] f = SummaryParagraph   -> [NoParagraphFacts EXCEPT !.bold = TRUE, !.summary = TRUE]
      [] f = ReferenceParagraph -> [NoParagraphFacts EXCEPT !.cited = {3}, !.evidence_section = TRUE]
      [] f \in {"**Step 1:** ", "**Step 2:** ", "**Step 3:** ", "**Step 4:** "} ->
             [NoParagraphFacts EXCEPT !.steps = TRUE, !.bold = TRUE]
      [] f \in {FinanceNotice, MedicalNotice, LiveHeader, LiveEntry, LiveTrailer,
                 EvidenceContext, SafetyText, RoiTemplate, ImportantPrefix} ->
             [NoParagraphFacts EXCEPT !.bold = TRUE]
      [] OTHER -> NoParagraphFacts

\* f"**Step {i}:** "
StepMarker(i) ==
    CASE i = 1 -> "**Step 1:** " [] i = 2 -> "**Step 2:** "
      [] i = 3 -> "**Step 3:** " [] OTHER -> "**Step 4:** "

CitedIn(t)            == UNION {ParagraphFacts(t[i]).cited : i \in 1 .. Len(t)}
HasSteps(t)           == \E i \in 1 .. Len(t) : ParagraphFacts(t[i]).steps
HasBold(t)            == \E i \in 1 .. Len(t) : ParagraphFacts(t[i]).bold
HasEvidenceSection(t) == \E i \in 1 .. Len(t) : ParagraphFacts(t[i]).evidence_section
HasFinalAnswer(t)     == \E i \in 1 .. Len(t) : ParagraphFacts(t[i]).summary

\* The second and third paragraph of a fallback template; the template's name
\* stands for the whole text before the split and for its first paragraph after.
TemplatePoints  == "(the template's list of points)"
TemplateClosing == "(the template's closing paragraph)"

\* [p.strip() for p in response.split('\n\n') if p.strip()]
RECURSIVE Paragraphs(_)
Paragraphs(t) ==
    IF t = <<>> THEN <<>>
    ELSE (IF IsWhitespace(Head(t)) THEN <<>>
          ELSE IF Head(t) \in {InvestmentTemplate, BudgetTemplate, DebtTemplate, MedicalTemplate}
          THEN <<Head(t), TemplatePoints, TemplateClosing>>
          ELSE <<Head(t)>>) \o Paragraphs(Tail(t))

\* restructured: f"**Step {i}:** {para}\n\n" for the first 4 paragraphs
RECURSIVE Restructured(_, _)
Restructured(ps, i) ==
    IF ps = <<>> \/ i > 4 THEN <<>>
    ELSE <<StepMarker(i), Head(ps), ParagraphBreak>> \o Restructured(Tail(ps), i + 1)

\* sorted(set(...)) of source numbers
RECURSIVE Sorted(_)
Sorted(S) ==
    IF S = {} THEN <<>>
    ELSE LET least == CHOOSE x \in S : \A y \in S : x <= y
         IN  <<least>> \o Sorted(S \ {least})

\* list(range(1, n + 1))
Range(n) == [i \in 1 .. n |-> i]

\* Mutant of SourceNumbers: only the cited sources are listed.
SourceNumbersCitedOnly(cited, ev) ==
    IF cited = {} /\ ev # <<>> THEN Range(Len(ev)) ELSE Sorted(cited)

\* _synthesize_final_answer: unique_source_nums after the override
SourceNumbers(cited, ev) ==
    IF ev # <<>> /\ Len(ev) > Cardinality(cited) THEN Range(Len(ev))
    ELSE IF cited = {} /\ ev # <<>> THEN Range(Len(ev))
    ELSE Sorted(cited)

\* One line of the source list: its number, the locator taken from the
\* evidence item ("" when the item has none or there is no such item) and
\* the origin shown.
SourceDetail(source_num, ev) ==
    [num    |-> source_num,
     url    |-> IF Len(ev) >= source_num THEN ev[source_num].url ELSE "",
     origin |-> IF Len(ev) >= source_num /\ ev[source_num].origin = "live"
                THEN "Internet" ELSE "Curated"]

NotSynthesized == [kind |-> "none"]

\* FinanceAgent._synthesize_final_answer / MedicalAgent._synthesize_final_answer
SynthesizeFinalAnswer(resp, ev) ==
    IF resp = <<>> THEN [kind |-> "empty"]
    ELSE LET unique_source_nums == SourceNumbers(CitedIn(resp), ev)
         IN  [kind |-> "synthesis",
              source_details |-> [k \in 1 .. Len(unique_source_nums) |->
                                     SourceDetail(unique_source_nums[k], ev)]]

\* FinanceAgent._add_structured_format / MedicalAgent._add_structured_format
AddStructuredFormatTo(resp, ev) ==
    LET has_steps            == HasSteps(resp)
        has_citations        == CitedIn(resp) # {}
        has_evidence_section == HasEvidenceSection(resp)
        has_final_answer     == HasFinalAnswer(resp)
        evidence_header ==
            IF ~has_citations /\ ~has_evidence_section /\ ev # <<>>
            THEN [i \in 1 .. Len(ev) |-> SourceDetail(i, ev)] ELSE <<>>
        paragraphs == Paragraphs(resp)
        structured ==
            IF ~has_steps /\ ~HasBold(resp) /\ Len(paragraphs) > 1
            THEN Restructured(paragraphs, 1) ELSE resp
    IN  IF resp = <<>>
             \/ (has_steps /\ has_citations /\ has_evidence_section /\ has_final_answer)
        THEN [kind |-> "formatted", evidence_header |-> <<>>, structured |-> resp,
              final_answer |-> NotSynthesized]
        ELSE [kind |-> "formatted", evidence_header |-> evidence_header,
              structured |-> structured,
              final_answer |-> IF ~has_final_answer
                               THEN SynthesizeFinalAnswer(structured, ev)
                               ELSE NotSynthesized]

\* The i-th item of an evidence list: curated with a locator, curated without
\* one, live with a locator, and so on.
EvidenceItem(i) ==
    CASE i % 3 = 1 -> Source("https://www.investor.gov/a", "curated")
      [] i % 3 = 2 -> Source("", "curated")
      [] OTHER     -> Source("https://www.sec.gov/b", "live")

FmtInit ==
    /\ CalibIdle
    /\ AggIdle
    /\ pc = "format"
    /\ agent \in Agents
    /\ answer \in {JoinParagraphs(ps) : ps \in SeqsUpTo(ParagraphTexts, MaxParagraphs)}
    /\ question = ""
    /\ domain = agent
    /\ evidence_sources \in {[i \in 1 .. n |-> EvidenceItem(i)] : n \in 0 .. MaxSources}
    /\ validation = NoValidation
    /\ corrected = <<>>
    /\ formatted = NoFormat
    /\ QueryIdle
    /\ SearchIdle

\* _add_structured_format(enhanced_answer, evidence_sources)
AddStructuredFormat ==
    /\ pc = "format"
    /\ formatted' = AddStructuredFormatTo(answer, evidence_sources)
    /\ pc' = "formatted"
    /\ UNCHANGED <<agent, text_len, factor_counts, return_confidence, validation_adj, response>>
    /\ UNCHANGED <<agg_vars, val_vars, query_vars, search_vars>>

FmtNext == AddStructuredFormat

FmtSpec == FmtInit /\ [][FmtNext]_vars

\* C11: when fewer distinct [Source N] indices are cited in the answer than
\* there are evidence items (none cited included), the synthesis lists exactly
\* Source 1 .. Source n, one per evidence item and in evidence order.
C11_SynthesisListsEveryEvidenceItem ==
    (/\ formatted.kind = "formatted"
     /\ formatted.final_answer.kind # "none"
     /\ Cardinality(CitedIn(formatted.structured)) < Len(evidence_sources))
    => /\ formatted.final_answer.kind = "synthesis"
       /\ Len(formatted.final_answer.source_details) = Len(evidence_sources)
       /\ \A i \in 1 .. Len(evidence_sources) :
              /\ formatted.final_answer.source_details[i].num = i
              /\ formatted.final_answer.source_details[i].url = evidence_sources[i].url
              /\ (formatted.final_answer.source_details[i].origin = "Internet")
                    <=> (evidence_sources[i].origin = "live")

\* Three evidence items, one of them cited in the answer, all three listed.
C11_Witness ==
    /\ formatted.kind = "formatted"
    /\ formatted.final_answer.kind = "synthesis"
    /\ Len(evidence_sources) = 3
    /\ CitedIn(answer) = {1}
    /\ Len(formatted.final_answer.source_details) = 3

\* Three evidence items, none cited, all three listed.
C11_WitnessNoneCited ==
    /\ formatted.kind = "formatted"
    /\ formatted.final_answer.kind = "synthesis"
    /\ Len(evidence_sources) = 3
    /\ CitedIn(answer) = {}
    /\ Len(formatted.final_answer.source_details) = 3

\* C21: for every answer and every non-empty evidence list, the source list
\* of the synthesis names every evidence item, whatever indices the answer
\* cites (also when the distinct cited indices are at least as many as the
\* evidence items but point outside, or only partly inside, the list).
C21_TrailerListsEveryItem ==
    (/\ formatted.kind = "formatted"
     /\ formatted.final_answer.kind = "synthesis"
     /\ evidence_sources # <<>>)
    => \A i \in 1 .. Len(evidence_sources) :
           \E k \in 1 .. Len(formatted.final_answer.source_details) :
               /\ formatted.final_answer.source_details[k].num = i
               /\ formatted.final_answer.source_details[k].url = evidence_sources[i].url

\* C12: for every answer shorter than 50 characters the completeness check
\* returns exactly 0.3, whatever the question and however the answer ends.
C12_ShortAnswerCompleteness ==
    (Validated /\ TextLen(answer) < 50) => validation.completeness_score = 300

\* A short answer that ends with a comma and uses the words of its question.
C12_Witness ==
    /\ Validated
    /\ answer = <<"The treatment always helps with migraine pain,">>
    /\ question = "What treatment helps a migraine?"
    /\ validation.completeness_score = 300

C13_WitnessBonus ==
    Validated /\ validation.confidence_adjustment = 50

(***************************************************************************)
(* The parsers with enhancers that report boosts outside [0, 1].           *)
(***************************************************************************)

\* faithfulness_improvement values of an enhancer that also reports negative ones
OutOfRangeLocalBoostValues == {-500, -100, 0, 200}
\* interpretability_improvement values of an integrator that also reports negative ones
OutOfRangeReasoningBoostValues == {-300, 0, 100}

\* _parse_finance_response / _parse_medical_response (lines 950-1006 and
\* 720-779) when the enhancers report such values
ParseResponseOutOfRange ==
    /\ pc = "parse"
    /\ \E local \in EnhancerOutcomes(OutOfRangeLocalBoostValues),
          reasoning \in EnhancerOutcomes(OutOfRangeReasoningBoostValues),
          internet_source_count \in InternetSourceCounts :
          response' = BuildResponse(
                          IF agent = "finance"
                          THEN FinanceBaseConfidence(text_len, validation_adj, return_confidence)
                          ELSE MedicalBaseConfidence(text_len, factor_counts, validation_adj),
                          local, internet_source_count, reasoning)
    /\ pc' = "done"
    /\ UNCHANGED <<agent, text_len, factor_counts, return_confidence, validation_adj>>
    /\ UNCHANGED <<agg_vars, val_vars, ext_vars>>

OutOfRangeNext == ParseResponseOutOfRange

OutOfRangeSpec == CalibInit /\ [][OutOfRangeNext]_vars

\* C14: a negative local evidence boost or reasoning boost is treated as zero:
\* the final confidence equals the value computed with that boost replaced by
\* 0, and is never below the base confidence.
C14_NegativeBoostTreatedAsZero ==
    pc = "done" =>
        /\ response.confidence_score
             = ParseConfidence(response.base_confidence,
                               Max(response.local_evidence_boost, 0),
                               response.internet_source_count,
                               Max(response.reasoning_boost, 0))
        /\ response.confidence_score >= response.base_confidence * Unit

(***************************************************************************)
(* FinanceAgent.query and MedicalAgent.query: one request from the         *)
(* question to the returned response.  The call of _enhance_with_systems   *)
(* is made of the actions of the aggregation above; pc = "done" is the     *)
(* point where it has returned.                                            *)
(***************************************************************************)

HarmfulQuery == "Is there a cancer treatment I can try?"

\* MedicalAgent._is_harmful_query: any(indicator in question.lower() ...);
\* of the questions here only HarmfulQuery holds an indicator ('cancer treatment')
IsHarmfulQuery(q) == q = HarmfulQuery

FinancePipelineQueries == {"Should I invest in index funds?", "What is a mortgage?"}
MedicalPipelineQueries == {"What is a migraine?", HarmfulQuery}

\* rag_system.build_cot_prompt_with_evidence(query, domain="finance", max_sources=5):
\* an exception, or the prompt with the evidence it was built from
PromptOutcomes ==
    { [raised |-> TRUE, items |-> <<>>],
      [raised |-> FALSE, items |-> <<>>],
      [raised |-> FALSE, items |-> <<Source("https://www.investor.gov/a", "curated")>>] }

\* The except branch of query: FinanceResponse(answer="Error processing query",
\* confidence_score=0.0, ...), _safe_response("Error processing medical query")
ErrorResponse(a) ==
    [kind |-> "error",
     answer |-> IF a = "finance" THEN "Error processing query"
                ELSE "Error processing medical query",
     confidence_score |-> 0]

\* _safe_response("Query requires professional medical consultation")
SafeResponse ==
    [kind |-> "safe",
     answer |-> "Query requires professional medical consultation",
     confidence_score |-> 0]

QueryInit ==
    /\ pc = "query"
    /\ agent \in Agents
    /\ query \in (IF agent = "finance" THEN FinancePipelineQueries ELSE MedicalPipelineQueries)
    /\ return_confidence \in (IF agent = "finance" THEN BOOLEAN ELSE {TRUE})
    /\ text_len = 0
    /\ factor_counts = <<0, 0>>
    /\ validation_adj = 0
    /\ response = NoResponse
    /\ base_response = NoneText
    /\ concepts = <<>>
    /\ sources = <<>>
    /\ live_call = "pending"
    /\ enhanced = NoResult
    /\ ValIdle
    /\ FmtIdle
    /\ QueryIdle
    /\ SearchIdle

\* FinanceAgent.query, step 1: the prompt is built from the curated evidence;
\* an exception ends the request in the except branch.
FinanceQueryBegin ==
    /\ pc = "query"
    /\ agent = "finance"
    /\ \E outcome \in PromptOutcomes :
          IF outcome.raised
          THEN /\ response' = ErrorResponse(agent)
               /\ pc' = "returned"
               /\ UNCHANGED <<evidence_sources, steps>>
          ELSE /\ evidence_sources' = outcome.items
               /\ steps' = Append(steps, "retrieve")
               /\ pc' = "generate"
               /\ UNCHANGED response
    /\ UNCHANGED <<agent, text_len, factor_counts, return_confidence, validation_adj>>
    /\ UNCHANGED <<agg_vars, answer, question, domain, validation, corrected>>
    /\ UNCHANGED <<fmt_vars, search_vars>>

\* MedicalAgent.query up to the prompt: the harmful-query check, and steps 1A
\* and 1B, which are skipped because the agent has neither attribute.
MedicalQueryBegin ==
    /\ pc = "query"
    /\ agent = "medical"
    /\ IF IsHarmfulQuery(query)
       THEN /\ response' = SafeResponse
            /\ pc' = "returned"
            /\ UNCHANGED <<evidence_sources, steps>>
       ELSE /\ evidence_sources' = <<>>
            /\ steps' = IF HasAttr(agent, "rag_system") \/ HasAttr(agent, "internet_rag")
                        THEN Append(steps, "retrieve") ELSE steps
            /\ pc' = "generate"
            /\ UNCHANGED response
    /\ UNCHANGED <<agent, text_len, factor_counts, return_confidence, validation_adj>>
    /\ UNCHANGED <<agg_vars, answer, question, domain, validation, corrected>>
    /\ UNCHANGED <<fmt_vars, search_vars>>

\* The generation (fine-tuned model or Ollama): base_answer stays None unless
\* the text has more than 20 characters; _enhance_with_systems is entered.
Generate ==
    /\ pc = "generate"
    /\ base_response' \in BaseResponses
    /\ steps' = steps \o <<"generate", "aggregate">>
    /\ pc' = "enhance"
    /\ UNCHANGED <<agent, text_len, factor_counts, return_confidence, validation_adj, response>>
    /\ UNCHANGED <<query, concepts, sources, live_call, enhanced>>
    /\ UNCHANGED <<val_vars, fmt_vars, search_vars>>

\* ollama_client.generate raises: the except branch of query.
GenerateRaises ==
    /\ pc = "generate"
    /\ response' = ErrorResponse(agent)
    /\ steps' = Append(steps, "generate")
    /\ pc' = "returned"
    /\ UNCHANGED <<agent, text_len, factor_counts, return_confidence, validation_adj>>
    /\ UNCHANGED <<agg_vars, val_vars, fmt_vars, search_vars>>

\* `if merged_sources: evidence_sources = merged_sources`
EvidenceForValidation ==
    IF enhanced.all_sources # <<>> THEN enhanced.all_sources ELSE evidence_sources

\* answer_validator.validate_response(answer=enhanced_answer, ...).  With
\* enhanced_answer None, re.findall raises TypeError: the except branch.
QueryValidateResponse ==
    /\ pc = "done"
    /\ enhanced.kind = "result"
    /\ evidence_sources' = EvidenceForValidation
    /\ answer' = enhanced.enhanced_response
    /\ question' = query
    /\ domain' = agent
    /\ IF enhanced.enhanced_response = NoneText
       THEN /\ response' = ErrorResponse(agent)
            /\ pc' = "returned"
            /\ UNCHANGED <<validation, steps>>
       ELSE /\ validation' = validate_response(enhanced.enhanced_response, query, agent,
                                               EvidenceForValidation)
            /\ steps' = Append(steps, "validate")
            /\ pc' = "corrections"
            /\ UNCHANGED response
    /\ UNCHANGED <<agent, text_len, factor_counts, return_confidence, validation_adj>>
    /\ UNCHANGED <<agg_vars, corrected, fmt_vars, search_vars>>

\* `if not validation_result.is_valid or validation_result.corrections:
\*      enhanced_answer = apply_corrections(enhanced_answer, validation_result)`
QueryApplyCorrections ==
    /\ pc = "corrections"
    /\ IF ~validation.is_valid \/ validation.corrections # <<>>
       THEN /\ answer' = apply_corrections(answer, validation)
            /\ corrected' = <<apply_corrections(answer, validation)>>
            /\ steps' = Append(steps, "apply_corrections")
       ELSE UNCHANGED <<answer, corrected, steps>>
    /\ pc' = "format"
    /\ UNCHANGED <<calib_vars_but_pc, agg_vars, question, domain, evidence_sources, validation>>
    /\ UNCHANGED <<fmt_vars, search_vars>>

\* _add_structured_format(enhanced_answer, evidence_sources); the medical
\* agent then appends its disclaimer section (_add_medical_disclaimer)
QueryAddStructuredFormat ==
    /\ pc = "format"
    /\ formatted' = AddStructuredFormatTo(answer, evidence_sources)
    /\ steps' = Append(steps, "synthesize")
    /\ pc' = "parse"
    /\ UNCHANGED <<calib_vars_but_pc, agg_vars, val_vars, search_vars>>

\* _parse_finance_response / _parse_medical_response with the validation
\* result.  The length of the formatted text is any of the length classes
\* above the length of the text that was formatted; the confidence words in
\* it (medical) are any of FactorCounts.
QueryParseResponse ==
    /\ pc = "parse"
    /\ text_len' \in {len \in TextLens : len > TextLen(answer)}
    /\ factor_counts' \in (IF agent = "medical" THEN FactorCounts ELSE {<<0, 0>>})
    /\ validation_adj' = validation.confidence_adjustment
    /\ \E local \in EnhancerOutcomes(LocalBoostValues),
          reasoning \in EnhancerOutcomes(ReasoningBoostValues) :
          response' = BuildResponse(
                          IF agent = "finance"
                          THEN FinanceBaseConfidence(text_len', validation_adj',
                                                     return_confidence)
                          ELSE MedicalBaseConfidence(text_len', factor_counts',
                                                     validation_adj'),
                          local, enhanced.internet_source_count, reasoning)
    /\ steps' = Append(steps, "calibrate")
    /\ pc' = "returned"
    /\ UNCHANGED <<agent, return_confidence>>
    /\ UNCHANGED <<agg_vars, val_vars, fmt_vars, search_vars>>

QueryNext ==
    \/ FinanceQueryBegin
    \/ MedicalQueryBegin
    \/ Generate
    \/ GenerateRaises
    \/ EnhanceResponseBegin
    \/ FetchConcept
    \/ EnhanceResponseReturn
    \/ EnhanceResponseFails
    \/ LiveCallRaises
    \/ EnhanceWithSystems
    \/ QueryValidateResponse
    \/ QueryApplyCorrections
    \/ QueryAddStructuredFormat
    \/ QueryParseResponse

QuerySpec == QueryInit /\ [][QueryNext]_vars

\* The place of a step in the order aggregate, calibrate, validate,
\* apply_corrections, synthesize; 0 for the steps the order does not name.
StepRank(step) ==
    CASE step = "aggregate"         -> 1
      [] step = "calibrate"         -> 2
      [] step = "validate"          -> 3
      [] step = "apply_corrections" -> 4
      [] step = "synthesize"        -> 5
      [] OTHER                      -> 0

\* C15: in every run of query the steps occur in the order aggregate,
\* calibrate, validate, apply_corrections, synthesize: no step is made after
\* a step that comes later in that order, and a response that went through
\* the pipeline was calibrated before it was validated.
C15_PipelineOrder ==
    /\ \A i, j \in 1 .. Len(steps) :
          (i < j /\ StepRank(steps[i]) > 0 /\ StepRank(steps[j]) > 0)
              => StepRank(steps[i]) <= StepRank(steps[j])
    /\ validation.kind = "result" => response.kind = "response"

\* The request went through the generation and the call of
\* _enhance_with_systems, and has returned.
ReturnedAfterAggregation ==
    /\ pc = "returned"
    /\ \E i \in 1 .. Len(steps) : steps[i] = "aggregate"

\* C18: whatever the sources and the enhancers did and whether or not the
\* backend produced a usable answer, a query that reached the aggregation
\* returns a validated, formatted and calibrated response on a non-empty text
\* with a confidence not below its base confidence; it never returns the
\* generic error response.
C18_FallbackNeverErrors ==
    ReturnedAfterAggregation =>
        /\ response.kind = "response"
        /\ ~IsFalsy(answer)
        /\ validation.kind = "result"
        /\ formatted.kind = "formatted"
        /\ response.confidence_score >= response.base_confidence * Unit

\* The base confidence the parser would have computed from the same text
\* with a confidence adjustment of zero.
BaseWithoutAdjustment ==
    IF agent = "finance"
    THEN FinanceBaseConfidence(text_len, 0, return_confidence)
    ELSE MedicalBaseConfidence(text_len, factor_counts, 0)

\* C19: a validation failure always reduces the returned confidence: when
\* validate_response returned is_valid = False, the response is still
\* returned, and its confidence is strictly lower than the one the same text
\* and the same boosts give with a confidence adjustment of zero.
C19_InvalidLowersConfidence ==
    (pc = "returned" /\ validation.kind = "result" /\ ~validation.is_valid) =>
        /\ response.kind = "response"
        /\ response.confidence_score
             < ParseConfidence(BaseWithoutAdjustment, response.local_evidence_boost,
                               response.internet_source_count, response.reasoning_boost)

\* C20: every query that the harmful-query check lets through issues one
\* request to the curated knowledge store and one to the live search provider,
\* in the finance agent and in the medical agent, so that the merge works on
\* the actual results of both.
C20_BothSourcesRequested ==
    enhanced.kind = "result" =>
        /\ enhanced.curated_requested
        /\ live_call \in {"returned", "raised"}

\* C30: in FinanceAgent.query, whenever the no-evidence notice was appended
\* to the answer (both aggregated sources empty), the evidence list handed to
\* validate_response and to _add_structured_format is empty, so the citation
\* check gives the neutral 0.7 and the trailer lists no sources.
C30_NoticeMeansNoEvidence ==
    (/\ agent = "finance"
     /\ validation.kind = "result"
     /\ Contains(enhanced.merged_response, FinanceNotice)) =>
        /\ evidence_sources = <<>>
        /\ validation.citation_score = 700
        /\ formatted.kind = "formatted" =>
              /\ formatted.evidence_header = <<>>
              /\ formatted.final_answer.kind = "synthesis"
                    => formatted.final_answer.source_details = <<>>

(***************************************************************************)
(* InternetRAGSystem._rate_limit and _search_web: one instance, one        *)
(* caller.  Time is counted in quarters of a second; time.time() does not  *)
(* go backwards and time.sleep(d) returns after d or later.                *)
(***************************************************************************)

\* self.min_request_interval = 1.0
MinRequestInterval == 4
\* time.time() when the instance is constructed (self.last_request_time = 0
\* lies far in the past)
StartTime == 8
\* The clock and the number of requests are followed up to these values.
MaxTime == 20
MaxRequests == 2
\* Longest pause of the caller between two calls, longest oversleep of
\* time.sleep and longest duration of a request (its timeout is 10 s).
MaxPause == 5
MaxOversleep == 1
MaxDuration == 1

\* data['items'] of a response that has the key
ResponseItems ==
    { <<>>,
      <<[url |-> "https://www.sec.gov/b", snippet |-> TRUE]>>,
      <<[url |-> "https://www.sec.gov/b", snippet |-> TRUE], [url |-> "", snippet |-> FALSE]>> }

\* How requests.get, raise_for_status and response.json() can end.
HttpOutcomes == {"ok", "no_items", "http_429", "http_error", "timeout", "malformed"}

\* Mutant of SleepTime: the limiter never waits.
SleepTimeNone(time_since_last) == 0

\* _rate_limit: the argument of time.sleep, 0 when it is not called
SleepTime(time_since_last) ==
    IF time_since_last < MinRequestInterval
    THEN MinRequestInterval - time_since_last
    ELSE 0

\* Mutant of SearchWebReturn: the HTTP error of a rate-limited API is raised
\* to the caller.
SearchWebReturnRaising(outcome, items) ==
    IF outcome = "ok"
    THEN [raised |-> FALSE,
          results |-> [i \in 1 .. Len(items) |-> [url |-> items[i].url, snippet |-> items[i].snippet]]]
    ELSE IF outcome = "http_429" THEN [raised |-> TRUE, results |-> <<>>]
    ELSE [raised |-> FALSE, results |-> <<>>]

\* _search_web from requests.get on: the list built from data['items'], or
\* [] from the two except branches and when the response has no 'items'
SearchWebReturn(outcome, items) ==
    IF outcome = "ok"
    THEN [raised |-> FALSE,
          results |-> [i \in 1 .. Len(items) |-> [url |-> items[i].url, snippet |-> items[i].snippet]]]
    ELSE [raised |-> FALSE, results |-> <<>>]

SearchInit ==
    /\ CalibIdle
    /\ pc = "idle"
    /\ agent = "finance"
    /\ response = NoResponse
    /\ AggIdle
    /\ ValIdle
    /\ FmtIdle
    /\ QueryIdle
    /\ now = StartTime
    /\ last_request_time = 0
    /\ use_real_search \in BOOLEAN
    /\ request_times = <<>>
    /\ last_call = NoCall
    /\ threads = NoThreads

\* Time passes between two calls.
Pause ==
    /\ now < MaxTime
    /\ \E d \in 1 .. MaxPause : now' = now + d
    /\ UNCHANGED <<last_request_time, use_real_search, request_times, last_call, threads>>
    /\ UNCHANGED <<calib_vars, agg_vars, val_vars, fmt_vars, query_vars>>

\* _search_web(query) with use_real_search off: [] at once.
SearchWebDisabled ==
    /\ ~use_real_search
    /\ last_call' = [kind |-> "call", enabled |-> FALSE, outcome |-> "none",
                     raised |-> FALSE, results |-> <<>>,
                     issued |-> FALSE,
                     stamp_before |-> last_request_time,
                     stamp_after |-> last_request_time]
    /\ UNCHANGED <<now, last_request_time, use_real_search, request_times, threads>>
    /\ UNCHANGED <<calib_vars, agg_vars, val_vars, fmt_vars, query_vars>>

\* _search_web(query) with use_real_search on: _rate_limit, the request, and
\* the results or the except branches.
SearchWeb ==
    /\ use_real_search
    /\ now <= MaxTime
    /\ Len(request_times) < MaxRequests
    /\ LET sleep == SleepTime(now - last_request_time)
       IN  \E over \in 0 .. (IF sleep > 0 THEN MaxOversleep ELSE 0),
              outcome \in HttpOutcomes, duration \in 0 .. MaxDuration :
           \E items \in (IF outcome = "ok" THEN ResponseItems
                         ELSE {<<>>}) :
              LET stamp == now + sleep + over
                  ret   == SearchWebReturn(outcome, items)
              IN  /\ last_request_time' = stamp
                  /\ request_times' = Append(request_times, stamp)
                  /\ now' = stamp + duration
                  /\ last_call' = [kind |-> "call", enabled |-> TRUE, outcome |-> outcome,
                                   raised |-> ret.raised, results |-> ret.results,
                                   issued |-> TRUE,
                                   stamp_before |-> last_request_time,
                                   stamp_after |-> stamp]
    /\ UNCHANGED <<use_real_search, threads>>
    /\ UNCHANGED <<calib_vars, agg_vars, val_vars, fmt_vars, query_vars>>

SearchNext == Pause \/ SearchWebDisabled \/ SearchWeb

SearchSpec == SearchInit /\ [][SearchNext]_vars

\* C16: consecutive live search requests of one instance are at least
\* min_request_interval apart, and last_request_time never decreases.
C16_RequestsSeparated ==
    /\ [](\A i \in 1 .. Len(request_times) - 1 :
              request_times[i + 1] - request_times[i] >= MinRequestInterval)
    /\ [][last_request_time' >= last_request_time]_vars

\* The second request came while the interval had not passed and was held
\* back to exactly one interval after the first.
C16_Witness ==
    /\ Len(request_times) >= 2
    /\ request_times[2] - request_times[1] = MinRequestInterval
    /\ last_request_time = request_times[Len(request_times)]

\* C17: _search_web never hands an error to its caller: an HTTP error (429
\* included), a timeout or a malformed response gives the empty list; with
\* the real search switched off it returns the empty list without a request
\* and without touching the limiter's timestamp.
C17_SearchNeverRaises ==
    last_call.kind = "call" =>
        /\ ~last_call.raised
        /\ last_call.outcome \notin {"ok"} => last_call.results = <<>>
        /\ ~last_call.enabled =>
              /\ last_call.results = <<>>
              /\ ~last_call.issued
              /\ last_call.stamp_after = last_call.stamp_before
              /\ request_times = <<>>

\* A call that met the API's rate limit returned the empty list.
C17_Witness ==
    /\ last_call.kind = "call"
    /\ last_call.outcome = "http_429"
    /\ ~last_call.raised
    /\ last_call.results = <<>>

\* A call with the real search switched off.
C17_WitnessDisabled ==
    /\ last_call.kind = "call"
    /\ ~last_call.enabled
    /\ last_call.results = <<>>
    /\ request_times = <<>>

(***************************************************************************)
(* Several request threads in _search_web of one InternetRAGSystem         *)
(*                                                                         *)
(* The agents are built once by the web application and serve every        *)
(* request thread; _rate_limit takes no lock.  Each thread goes through    *)
(* the statements of _rate_limit one at a time: it reads the clock, reads  *)
(* last_request_time and decides, sleeps, writes last_request_time, and    *)
(* then sends its request.                                                 *)
(***************************************************************************)

\* Request threads sharing the InternetRAGSystem, and the time up to which
\* their runs are followed.
NumThreads == 2
MaxThreadTime == 14

Threads == 1 .. NumThreads

ThreadStart == [at |-> "call", current_time |-> 0, wake |-> 0]

ConcInit ==
    /\ CalibIdle
    /\ pc = "idle"
    /\ agent = "finance"
    /\ response = NoResponse
    /\ AggIdle
    /\ ValIdle
    /\ FmtIdle
    /\ QueryIdle
    /\ now = StartTime
    /\ last_request_time = 0
    /\ use_real_search = TRUE
    /\ request_times = <<>>
    /\ last_call = NoCall
    /\ threads = [t \in Threads |-> ThreadStart]

\* The clock advances while no thread is running.
Tick ==
    /\ now < MaxThreadTime
    /\ now' = now + 1
    /\ UNCHANGED <<last_request_time, use_real_search, request_times, last_call, threads>>
    /\ UNCHANGED <<calib_vars, agg_vars, val_vars, fmt_vars, query_vars>>

\* current_time = time.time()
ReadClock(t) ==
    /\ threads[t].at = "call"
    /\ threads' = [threads EXCEPT ![t].at = "compare", ![t].current_time = now]
    /\ UNCHANGED <<now, last_request_time, use_real_search, request_times, last_call>>
    /\ UNCHANGED <<calib_vars, agg_vars, val_vars, fmt_vars, query_vars>>

\* time_since_last = current_time - self.last_request_time and the test;
\* time.sleep is entered when the interval has not passed.
Compare(t) ==
    /\ threads[t].at = "compare"
    /\ LET sleep == SleepTime(threads[t].current_time - last_request_time)
       IN  threads' = IF sleep > 0
                      THEN [threads EXCEPT ![t].at = "sleep", ![t].wake = now + sleep]
                      ELSE [threads EXCEPT ![t].at = "stamp"]
    /\ UNCHANGED <<now, last_request_time, use_real_search, request_times, last_call>>
    /\ UNCHANGED <<calib_vars, agg_vars, val_vars, fmt_vars, query_vars>>

\* time.sleep returns, not before the time asked for has passed.
Wake(t) ==
    /\ threads[t].at = "sleep"
    /\ now >= threads[t].wake
    /\ threads' = [threads EXCEPT ![t].at = "stamp"]
    /\ UNCHANGED <<now, last_request_time, use_real_search, request_times, last_call>>
    /\ UNCHANGED <<calib_vars, agg_vars, val_vars, fmt_vars, query_vars>>

\* self.last_request_time = time.time()
Stamp(t) ==
    /\ threads[t].at = "stamp"
    /\ last_request_time' = now
    /\ threads' = [threads EXCEPT ![t].at = "request"]
    /\ UNCHANGED <<now, use_real_search, request_times, last_call>>
    /\ UNCHANGED <<calib_vars, agg_vars, val_vars, fmt_vars, query_vars>>

\* requests.get(...): the request goes out.
SendRequest(t) ==
    /\ threads[t].at = "request"
    /\ request_times' = Append(request_times, now)
    /\ threads' = [threads EXCEPT ![t].at = "returned"]
    /\ UNCHANGED <<now, last_request_time, use_real_search, last_call>>
    /\ UNCHANGED <<calib_vars, agg_vars, val_vars, fmt_vars, query_vars>>

ConcNext ==
    \/ Tick
    \/ \E t \in Threads : ReadClock(t)
    \/ \E t \in Threads : Compare(t)
    \/ \E t \in Threads : Wake(t)
    \/ \E t \in Threads : Stamp(t)
    \/ \E t \in Threads : SendRequest(t)

ConcSpec == ConcInit /\ [][ConcNext]_vars

\* C26: when several request threads share one InternetRAGSystem and call
\* _search_web concurrently, in every interleaving of the steps of
\* _rate_limit no two requests go out less than min_request_interval apart,
\* and last_request_time never moves backwards.
C26_ConcurrentRequestsSeparated ==
    /\ [](\A i, j \in 1 .. Len(request_times) :
              i < j => request_times[j] - request_times[i] >= MinRequestInterval)
    /\ [][last_request_time' >= last_request_time]_vars

====
